---- MODULE Spec2Model ----
(***************************************************************************)
(* Stream lifecycle of the livestream backend: StreamManager (startStream, *)
(* stopStream, deleteStream, startRecording, stopRecording), the RTMP      *)
(* webhooks /publish and /unpublish, and the ffmpeg child processes.       *)
(*                                                                         *)
(* Every handler is an async function: it runs from one `await` to the     *)
(* next without interruption, and anything may run between two of its      *)
(* steps.  One action of the model is one such step: a statement executed  *)
(* by the database, together with the synchronous code that follows it.    *)
(***************************************************************************)
EXTENDS Integers, Sequences, FiniteSets, TLC

\* ------------------------------------------------------------ bounds
MaxStreams == 1
MaxReq == 3
MaxTime == 2
MaxInFlight == 2
MaxClients == 2
MaxUsers == 2
MaxQuestions == 1
MaxReg == 3
MaxNames == 2
MaxListed == 3
MaxLimit == 2
MaxPair == 2
MaxQuiz == 2
MaxQuery == 2

\* ------------------------------------------------------------ values
\* SQL NULL of the nullable columns start_time, end_time, duration
NULL == -1
\* Map.get of a stream id that has no entry in recordingProcesses
NoProc == 0

StreamIds == 1..MaxStreams
ReqIds == 1..MaxReq
Pids == 1..MaxReq
ClientIds == 1..MaxClients
UserIds == 1..MaxUsers
RegIds == 1..MaxReg
\* the streams of the listing, and the limits and offsets it is asked for
ListIds == 1..MaxListed
\* the streams that are operated on side by side
PairIds == 1..MaxPair
Limits == 0..MaxLimit
\* the usernames and the email addresses that are submitted
Names == 1..MaxNames
Emails == 1..MaxNames
\* user_id of a stream id that has no row
NoUser == 0
\* a route check that let the request through (no response yet)
Pass == 0
\* a quiz body that updateQuizSchema.validate rejects
InvalidBody == -2
\* the user the integration tests create their streams for
TestUser == 1
\* no client.send of a broadcast throws
NoThrow == 0
QuizIds == 1..MaxQuiz
\* parseInt(req.query.page) || 1
DefaultPage == 1
\* parseInt(req.query.limit) || 20
DefaultLimit == 20
\* Math.min(..., 100)
LimitCap == 100
\* the integers sent as ?page= and ?limit=: around zero and around the cap
QueryValues ==
    (-MaxQuery..MaxQuery) \cup ((LimitCap - MaxQuery)..(LimitCap + MaxQuery))
\* the metadata object {}
EmptyMeta == [k \in {} |-> 0]
\* the metadata objects that streams are created with
Metas == {EmptyMeta, [k \in {"isAd"} |-> 1], [k \in {"isAd", "tags"} |-> 1]}
\* the keys the quiz route writes
QuizKeys == {"quizQuestions", "quizEnabled", "quizUpdatedAt"}
\* PUT /:id/quiz-questions has not been called
IdleQuiz == [pc |-> "idle", sid |-> 0, questions |-> 0, read |-> EmptyMeta,
             status |-> 0]
\* the text of the stream ids (UUIDs) that paths are computed for
Uuids == {"u1", "u2", "u3", "u4"}
\* a path is the sequence of its segments, a segment a name and an
\* extension
Seg(name) == <<name, "">>
\* an environment variable that is not set (or is the empty string)
Unset == <<>>
\* the roots an environment variable is set to
Roots == {<<Seg("srv")>>, <<Seg("."), Seg("srv"), Seg("media")>>}
\* startRecording has not run for the stream id
NoPaths == [hlsDir |-> <<>>, recordingPath |-> <<>>, hlsPath |-> <<>>]

VARIABLES
    rows,        \* table streams: stream id -> row
    nextStream,  \* the next id gen_random_uuid() hands out
    events,      \* table stream_events, in insertion order
    recordingProcesses, \* StreamManager.recordingProcesses: stream id -> pid
    procs,       \* the ffmpeg child processes ever spawned, by pid
    hlsDir,      \* whether the HLS directory of a stream exists on disk
    notifications, \* the calls of wsManager.broadcast, in order
    req,         \* the handler invocations, by request id
    now,         \* the wall clock (Date.now() and SQL NOW())
    cloud,       \* process.env.S3_BUCKET || process.env.MINIO_ENDPOINT
    overlap,     \* history: a handler was invoked while another was running
    stamp,       \* whether the call and return times of handlers are recorded
    clients,     \* WebSocketManager.clients, in insertion order
    readyState,  \* readyState of each websocket
    inbox,       \* the messages each websocket was sent, in order
    user_id,     \* column streams.user_id: stream id -> owner
    metadata,    \* column streams.metadata: stream id -> key -> value
    http,        \* the request the stream routes are serving
    users,       \* table users
    reg,         \* the invocations of POST /register
    page,        \* the invocation of getUserStreams
    env,         \* process.env: HLS_PATH and RECORDINGS_PATH
    artifacts,   \* the paths startRecording has computed, by stream id
    linked,      \* the sockets between their 'connection' event and their
                 \* 'close' or 'error' event
    quiz         \* the invocations of PUT /:id/quiz-questions

\* the state of the WebSocketManager
wsVars == <<clients, readyState, inbox, linked>>

\* the state only the HTTP routes read or write
apiVars == <<metadata, http>>

vars == <<rows, nextStream, events, recordingProcesses, procs, hlsDir,
          notifications, req, now, cloud, overlap, stamp, clients,
          readyState, inbox, user_id, metadata, http, users, reg,
          page, env, artifacts, linked, quiz>>

\* the configured roots and the paths computed under them
pathVars == <<env, artifacts>>

\* the state of the auth router
authVars == <<users, reg>>

\* everything but the state of the auth router
streamVars == <<rows, nextStream, events, recordingProcesses, procs, hlsDir,
                notifications, req, now, cloud, overlap, stamp, wsVars,
                user_id, apiVars, page>>

\* ------------------------------------------------------------ rows
\* a stream id with no row (never inserted, or deleted)
NoRow == [exists |-> FALSE, status |-> "none", start_time |-> NULL,
          end_time |-> NULL, duration |-> NULL, paths |-> FALSE]

\* INSERT INTO streams: the column defaults of a new row
NewRow == [exists |-> TRUE, status |-> "created", start_time |-> NULL,
           end_time |-> NULL, duration |-> NULL, paths |-> FALSE]

\* no request has been received by the stream routes
IdleHttp == [route |-> "none", sid |-> 0, user |-> NoUser, body |-> NULL,
             pc |-> "idle", status |-> 0, call |-> 0]

\* an invocation of POST /register that has not been made
IdleReg == [username |-> 0, email |-> 0, pc |-> "idle", result |-> "none"]

\* getUserStreams has not been called
IdlePage == [pc |-> "idle", user |-> NoUser, limit |-> 0, offset |-> 0,
             selected |-> FALSE, streams |-> <<>>,
             counted |-> FALSE, total |-> 0]

\* an invocation slot that has not been used
IdleReq == [op |-> "none", sid |-> 0, pc |-> "idle", result |-> "none",
            st0 |-> "none", start_time |-> NULL, paths |-> FALSE,
            duration |-> NULL, at |-> NULL, upload |-> "none"]

\* history: the clock at the call of a handler and, once it has returned,
\* at its return
Stamp == IF stamp THEN now ELSE NULL

Issued == {r \in ReqIds : req[r].pc # "idle"}
Running == {r \in ReqIds : req[r].pc \notin {"idle", "done"}}
FreeReq == {r \in ReqIds : req[r].pc = "idle"}
NewReq == CHOOSE r \in FreeReq : \A q \in FreeReq : r <= q
\* a new invocation can be accepted
CanBegin == FreeReq # {} /\ Cardinality(Running) < MaxInFlight

\* a handler returns or throws: only its outcome is kept
Finish(r, res) ==
    [req EXCEPT ![r].pc = "done", ![r].result = res, ![r].at = Stamp]

Goto(r, label) == [req EXCEPT ![r].pc = label]

\* the first step of a handler: the row it selected
Begin(op, s, label) ==
    [req EXCEPT ![NewReq] = [op |-> op, sid |-> s, pc |-> label,
                             result |-> "none", st0 |-> rows[s].status,
                             start_time |-> rows[s].start_time,
                             paths |-> rows[s].paths, duration |-> NULL,
                             at |-> Stamp, upload |-> "none"]]

\* a handler that ends in its first step
BeginDone(op, s, res) ==
    [req EXCEPT ![NewReq] = [op |-> op, sid |-> s, pc |-> "done",
                             result |-> res, st0 |-> rows[s].status,
                             start_time |-> NULL, paths |-> FALSE,
                             duration |-> NULL, at |-> Stamp,
                             upload |-> "none"]]

\* ------------------------------------------------------------ helpers
\* logStreamEvent / INSERT INTO stream_events
LogEvent(s, type) == Append(events, [sid |-> s, type |-> type])

\* wsManager.broadcast(type, {streamId, ...})
Broadcast(s, type) == Append(notifications, [sid |-> s, type |-> type])

\* the position of client c in the iteration order of the Set clients
Index(c) == CHOOSE i \in DOMAIN clients : clients[i] = c

\* the members of clients with readyState === WebSocket.OPEN
OpenClients ==
    {c \in ClientIds : /\ \E i \in DOMAIN clients : clients[i] = c
                       /\ readyState[c] = "OPEN"}

\* client.send(messageStr) has no try/catch around it: the send to an OPEN
\* client returns, or throws and ends clients.forEach there
Throwers == {NoThrow} \cup OpenClients

\* the clients whose send ran and returned when the send to thrower threw
Reached(thrower) ==
    {c \in OpenClients : thrower = NoThrow \/ Index(c) < Index(thrower)}

\* clients.forEach(client => { if (OPEN) client.send(messageStr) })
Delivered(type, thrower) ==
    [c \in ClientIds |-> IF c \in Reached(thrower)
                         THEN Append(inbox[c], type) ELSE inbox[c]]

\* how the caller of broadcast ends: an exception of send leaves broadcast
\* and the handler that called it
Sent(thrower) == IF thrower = NoThrow THEN "ok" ELSE "send_error"

\* mutant: the operands of the subtraction exchanged
DurationSwapped(start, t) == IF start # NULL THEN start - t ELSE 0

\* Math.floor((Date.now() - start_time) / 1000), or 0 without a start_time
Duration(start, t) == IF start # NULL THEN t - start ELSE 0

\* mutant: termination that returns only once the child has exited
KillHandleWaits(s) ==
    LET p == recordingProcesses[s] IN
    IF p = NoProc THEN procs
    ELSE [procs EXCEPT ![p].term = TRUE, ![p].state = "exited"]

\* process.kill('SIGTERM') on the handle of s, if the map has one
KillHandle(s) ==
    LET p == recordingProcesses[s] IN
    IF p = NoProc THEN procs
    ELSE [procs EXCEPT ![p].term = TRUE]

\* mutant: stopRecording that forgets recordingProcesses.delete
StopRecordingMapKept(s) == recordingProcesses

\* stopRecording: SIGTERM to the handle and recordingProcesses.delete
StopRecordingProcs(s) == KillHandle(s)
StopRecordingMap(s) == [recordingProcesses EXCEPT ![s] = NoProc]

\* ------------------------------------------------------------ Init
FreshOf(ids) ==
    /\ rows = [s \in ids |-> NoRow]
    /\ nextStream = 1
    /\ events = <<>>
    /\ recordingProcesses = [s \in ids |-> NoProc]
    /\ procs = <<>>
    /\ hlsDir = [s \in ids |-> FALSE]
    /\ notifications = <<>>
    /\ req = [r \in ReqIds |-> IdleReq]
    /\ now = 0
    /\ cloud \in BOOLEAN
    /\ overlap = FALSE
    /\ clients = <<>>
    /\ readyState = [c \in ClientIds |-> "NONE"]
    /\ inbox = [c \in ClientIds |-> <<>>]
    /\ user_id = [s \in ids |-> NoUser]
    /\ metadata = [s \in ids |-> EmptyMeta]
    /\ http = IdleHttp
    /\ users = {}
    /\ reg = [r \in RegIds |-> IdleReg]
    /\ page = IdlePage
    /\ env = [HLS_PATH |-> Unset, RECORDINGS_PATH |-> Unset]
    /\ artifacts = [id \in Uuids |-> NoPaths]
    /\ linked = {}
    /\ quiz = [q \in QuizIds |-> IdleQuiz]

Fresh == FreshOf(StreamIds)

Init == Fresh /\ stamp = FALSE

\* ------------------------------------------------------------ createStream
\* INSERT INTO streams (user_id, ...) VALUES ($1, ...)
CreateStreamWith(u, meta) ==
    /\ nextStream \in DOMAIN rows
    /\ rows' = [rows EXCEPT ![nextStream] = NewRow]
    /\ user_id' = [user_id EXCEPT ![nextStream] = u]
    /\ metadata' = [metadata EXCEPT ![nextStream] = meta]
    /\ nextStream' = nextStream + 1
    /\ UNCHANGED <<events, recordingProcesses, procs, hlsDir, notifications,
                   req, now, cloud, overlap, stamp, wsVars, http,
                   authVars, page, pathVars, quiz>>

\* createStream without metadata: JSON.stringify(streamData.metadata || {})
CreateStreamBy(u) == CreateStreamWith(u, EmptyMeta)

\* createStream({userId, ...}) of the integration tests: the one test user
CreateStream == CreateStreamBy(TestUser)

\* ------------------------------------------------------------ startStream
\* getStream, then the two guards on the row that was read
StartStreamCall(s) ==
    /\ CanBegin
    /\ overlap' = (overlap \/ Running # {})
    /\ req' = IF ~rows[s].exists THEN BeginDone("start", s, "not_found")
              ELSE IF rows[s].status = "live"
                   THEN BeginDone("start", s, "already_live")
                   ELSE Begin("start", s, "start_update")
    /\ UNCHANGED <<rows, nextStream, events, recordingProcesses, procs,
                   hlsDir, notifications, now, cloud, stamp, wsVars, user_id,
                   metadata, authVars, page, pathVars, quiz>>

\* startStream(streamId) is called by a caller other than the stream routes
StartStreamRead(s) == StartStreamCall(s) /\ UNCHANGED <<http, authVars, page, pathVars, quiz>>

\* UPDATE streams SET status = 'live', start_time = NOW() WHERE id = $2
SetLive(s) ==
    IF rows[s].exists
    THEN [rows EXCEPT ![s].status = "live", ![s].start_time = now]
    ELSE rows

StartStreamUpdate(r) ==
    /\ req[r].pc = "start_update"
    /\ rows' = SetLive(req[r].sid)
    /\ req' = Goto(r, "start_rec")
    /\ UNCHANGED <<nextStream, events, recordingProcesses, procs, hlsDir,
                   notifications, now, cloud, overlap, stamp, wsVars, user_id, apiVars,
                   authVars, page, pathVars, quiz>>

\* mutant: startRecording that spawns without creating the directory
StartRecordingSpawnNoDir(r, state) ==
    LET s == req[r].sid IN
    /\ procs' = Append(procs, [sid |-> s, state |-> state, term |-> FALSE])
    /\ recordingProcesses' = [recordingProcesses EXCEPT ![s] = Len(procs) + 1]
    /\ req' = Goto(r, "start_paths")
    /\ UNCHANGED <<rows, nextStream, events, notifications, now, cloud,
                   overlap, stamp, wsVars, user_id, apiVars, authVars, page,
                   hlsDir, pathVars, quiz>>

\* startRecording up to its await: mkdirSync, spawn, the handlers, Map.set
StartRecordingSpawn(r, state) ==
    LET s == req[r].sid IN
    /\ hlsDir' = [hlsDir EXCEPT ![s] = TRUE]
    /\ procs' = Append(procs, [sid |-> s, state |-> state, term |-> FALSE])
    /\ recordingProcesses' = [recordingProcesses EXCEPT ![s] = Len(procs) + 1]
    /\ req' = Goto(r, "start_paths")
    /\ UNCHANGED <<rows, nextStream, events, notifications, now, cloud,
                   overlap, stamp, wsVars, user_id, apiVars, authVars, page,
                   pathVars, quiz>>

\* mkdirSync throws: startRecording and startStream reject
StartRecordingMkdirFails(r) ==
    /\ ~hlsDir[req[r].sid]
    /\ req' = Finish(r, "mkdir_error")
    /\ UNCHANGED <<rows, nextStream, events, recordingProcesses, procs,
                   hlsDir, notifications, now, cloud, overlap, stamp, wsVars, user_id, apiVars,
                   authVars, page, pathVars, quiz>>

StartRecording(r) ==
    /\ req[r].pc = "start_rec"
    /\ \/ StartRecordingSpawn(r, "running")
       \/ StartRecordingSpawn(r, "spawn_failed")
       \/ StartRecordingMkdirFails(r)

\* UPDATE streams SET recording_path = $1, hls_path = $2 WHERE id = $3
StartRecordingPaths(r) ==
    LET s == req[r].sid IN
    /\ req[r].pc = "start_paths"
    /\ rows' = IF rows[s].exists THEN [rows EXCEPT ![s].paths = TRUE] ELSE rows
    /\ req' = Goto(r, "start_log")
    /\ UNCHANGED <<nextStream, events, recordingProcesses, procs, hlsDir,
                   notifications, now, cloud, overlap, stamp, wsVars, user_id, apiVars,
                   authVars, page, pathVars, quiz>>

\* logStreamEvent(streamId, 'stream_started'): the insert fails on the
\* foreign key when the row is gone
StartStreamLog(r) ==
    LET s == req[r].sid IN
    /\ req[r].pc = "start_log"
    /\ IF rows[s].exists
       THEN /\ events' = LogEvent(s, "stream_started")
            /\ req' = Goto(r, "start_bcast")
       ELSE /\ events' = events
            /\ req' = Finish(r, "fk_error")
    /\ UNCHANGED <<rows, nextStream, recordingProcesses, procs, hlsDir,
                   notifications, now, cloud, overlap, stamp, wsVars, user_id, apiVars,
                   authVars, page, pathVars, quiz>>

StartStreamBroadcast(r) ==
    /\ req[r].pc = "start_bcast"
    /\ notifications' = Broadcast(req[r].sid, "stream_started")
    /\ \E thrower \in Throwers :
          /\ inbox' = Delivered("stream_started", thrower)
          /\ req' = Finish(r, Sent(thrower))
    /\ UNCHANGED <<rows, nextStream, events, recordingProcesses, procs,
                   hlsDir, now, cloud, overlap, stamp, clients, readyState, user_id, apiVars,
                   authVars, page, pathVars, linked, quiz>>

\* ------------------------------------------------------------ stopStream
\* mutant: stopStream without its not-found guard
StopStreamReadUnguarded(s) ==
    /\ CanBegin
    /\ overlap' = (overlap \/ Running # {})
    /\ req' = Begin("stop", s, "stop_rec")
    /\ UNCHANGED <<rows, nextStream, events, recordingProcesses, procs,
                   hlsDir, notifications, now, cloud, stamp, wsVars, user_id,
                   metadata, authVars, page, pathVars, quiz>>

\* getStream and the not-found guard (the only guard of stopStream)
StopStreamCall(s) ==
    /\ CanBegin
    /\ overlap' = (overlap \/ Running # {})
    /\ req' = IF ~rows[s].exists THEN BeginDone("stop", s, "not_found")
              ELSE Begin("stop", s, "stop_rec")
    /\ UNCHANGED <<rows, nextStream, events, recordingProcesses, procs,
                   hlsDir, notifications, now, cloud, stamp, wsVars, user_id,
                   metadata, authVars, page, pathVars, quiz>>

\* stopStream(streamId) is called by a caller other than the stream routes
StopStreamRead(s) == StopStreamCall(s) /\ UNCHANGED <<http, authVars, page, pathVars, quiz>>

\* mutant: a stopStream that rejects when the stream has no handle
StopStreamRecordingStrict(r) ==
    LET s == req[r].sid IN
    /\ req[r].pc = "stop_rec"
    /\ procs' = StopRecordingProcs(s)
    /\ recordingProcesses' = StopRecordingMap(s)
    /\ req' = IF recordingProcesses[s] = NoProc
              THEN Finish(r, "no_process")
              ELSE [req EXCEPT ![r].pc = "stop_update",
                               ![r].duration = Duration(req[r].start_time, now)]
    /\ UNCHANGED <<rows, nextStream, events, hlsDir, notifications, now,
                   cloud, overlap, stamp, wsVars, user_id, apiVars, authVars, page,
                   pathVars, quiz>>

\* stopRecording, then the duration from the start_time that was read
StopStreamRecording(r) ==
    LET s == req[r].sid IN
    /\ req[r].pc = "stop_rec"
    /\ procs' = StopRecordingProcs(s)
    /\ recordingProcesses' = StopRecordingMap(s)
    /\ req' = [req EXCEPT ![r].pc = "stop_update",
                          ![r].duration = Duration(req[r].start_time, now)]
    /\ UNCHANGED <<rows, nextStream, events, hlsDir, notifications, now,
                   cloud, overlap, stamp, wsVars, user_id, apiVars, authVars, page,
                   pathVars, quiz>>

\* UPDATE streams SET status = 'ended', end_time = NOW(), duration = $2
SetEnded(s, d) ==
    IF rows[s].exists
    THEN [rows EXCEPT ![s].status = "ended", ![s].end_time = now,
                      ![s].duration = d]
    ELSE rows

\* the upload is attempted when the row that was read had a recording_path
\* and cloud storage is configured
StopStreamUpdate(r) ==
    /\ req[r].pc = "stop_update"
    /\ rows' = SetEnded(req[r].sid, req[r].duration)
    /\ req' = Goto(r, IF req[r].paths /\ cloud THEN "stop_upload"
                      ELSE "stop_log")
    /\ UNCHANGED <<nextStream, events, recordingProcesses, procs, hlsDir,
                   notifications, now, cloud, overlap, stamp, wsVars, user_id, apiVars,
                   authVars, page, pathVars, quiz>>

\* mutant: the upload awaited without try/catch, its rejection leaves
\* stopStream
UploadSettledUncaught(r, outcome) ==
    IF outcome = "failed"
    THEN [req EXCEPT ![r].pc = "done", ![r].result = "upload_error",
                     ![r].upload = outcome, ![r].at = Stamp]
    ELSE [req EXCEPT ![r].pc = "stop_log", ![r].upload = outcome]

\* try { await uploadRecording(...) } catch { console.error }: stopStream
\* goes on to the event whether the upload resolved or rejected
UploadSettled(r, outcome) ==
    [req EXCEPT ![r].pc = "stop_log", ![r].upload = outcome]

\* await storageService.uploadRecording: the upload resolves (stored) or
\* rejects (file missing, S3 or MinIO error)
StopStreamUpload(r) ==
    /\ req[r].pc = "stop_upload"
    /\ \E outcome \in {"stored", "failed"} : req' = UploadSettled(r, outcome)
    /\ UNCHANGED <<rows, nextStream, events, recordingProcesses, procs,
                   hlsDir, notifications, now, cloud, overlap, stamp, wsVars, user_id, apiVars,
                   authVars, page, pathVars, quiz>>

StopStreamLog(r) ==
    LET s == req[r].sid IN
    /\ req[r].pc = "stop_log"
    /\ IF rows[s].exists
       THEN /\ events' = LogEvent(s, "stream_ended")
            /\ req' = Goto(r, "stop_bcast")
       ELSE /\ events' = events
            /\ req' = Finish(r, "fk_error")
    /\ UNCHANGED <<rows, nextStream, recordingProcesses, procs, hlsDir,
                   notifications, now, cloud, overlap, stamp, wsVars, user_id, apiVars,
                   authVars, page, pathVars, quiz>>

StopStreamBroadcast(r) ==
    /\ req[r].pc = "stop_bcast"
    /\ notifications' = Broadcast(req[r].sid, "stream_ended")
    /\ \E thrower \in Throwers :
          /\ inbox' = Delivered("stream_ended", thrower)
          /\ req' = Finish(r, Sent(thrower))
    /\ UNCHANGED <<rows, nextStream, events, recordingProcesses, procs,
                   hlsDir, now, cloud, overlap, stamp, clients, readyState, user_id, apiVars,
                   authVars, page, pathVars, linked, quiz>>

\* ------------------------------------------------------------ POST /publish
\* the ingest key of stream s is the key s; SELECT id WHERE ingest_key = $1
PublishLookup(s) ==
    /\ CanBegin
    /\ overlap' = (overlap \/ Running # {})
    /\ req' = IF ~rows[s].exists THEN BeginDone("publish", s, "403")
              ELSE Begin("publish", s, "pub_update")
    /\ UNCHANGED <<rows, nextStream, events, recordingProcesses, procs,
                   hlsDir, notifications, now, cloud, stamp, wsVars, user_id, apiVars,
                   authVars, page, pathVars, quiz>>

PublishUpdate(r) ==
    /\ req[r].pc = "pub_update"
    /\ rows' = SetLive(req[r].sid)
    /\ req' = Goto(r, "pub_log")
    /\ UNCHANGED <<nextStream, events, recordingProcesses, procs, hlsDir,
                   notifications, now, cloud, overlap, stamp, wsVars, user_id, apiVars,
                   authVars, page, pathVars, quiz>>

\* INSERT 'rtmp_publish_started', then res.status(200)
PublishLog(r) ==
    LET s == req[r].sid IN
    /\ req[r].pc = "pub_log"
    /\ IF rows[s].exists
       THEN /\ events' = LogEvent(s, "rtmp_publish_started")
            /\ req' = Finish(r, "200")
       ELSE /\ events' = events
            /\ req' = Finish(r, "fk_error")
    /\ UNCHANGED <<rows, nextStream, recordingProcesses, procs, hlsDir,
                   notifications, now, cloud, overlap, stamp, wsVars, user_id, apiVars,
                   authVars, page, pathVars, quiz>>

\* ------------------------------------------------------------ POST /unpublish
\* SELECT id, start_time WHERE ingest_key = $1; 200 also when no row matches
UnpublishLookup(s) ==
    /\ CanBegin
    /\ overlap' = (overlap \/ Running # {})
    /\ req' = IF ~rows[s].exists THEN BeginDone("unpublish", s, "200")
              ELSE Begin("unpublish", s, "unpub_calc")
    /\ UNCHANGED <<rows, nextStream, events, recordingProcesses, procs,
                   hlsDir, notifications, now, cloud, stamp, wsVars, user_id, apiVars,
                   authVars, page, pathVars, quiz>>

UnpublishDuration(r) ==
    /\ req[r].pc = "unpub_calc"
    /\ req' = [req EXCEPT ![r].pc = "unpub_update",
                          ![r].duration = Duration(req[r].start_time, now)]
    /\ UNCHANGED <<rows, nextStream, events, recordingProcesses, procs,
                   hlsDir, notifications, now, cloud, overlap, stamp, wsVars, user_id, apiVars,
                   authVars, page, pathVars, quiz>>

UnpublishUpdate(r) ==
    /\ req[r].pc = "unpub_update"
    /\ rows' = SetEnded(req[r].sid, req[r].duration)
    /\ req' = Goto(r, "unpub_log")
    /\ UNCHANGED <<nextStream, events, recordingProcesses, procs, hlsDir,
                   notifications, now, cloud, overlap, stamp, wsVars, user_id, apiVars,
                   authVars, page, pathVars, quiz>>

UnpublishLog(r) ==
    LET s == req[r].sid IN
    /\ req[r].pc = "unpub_log"
    /\ IF rows[s].exists
       THEN /\ events' = LogEvent(s, "rtmp_publish_stopped")
            /\ req' = Finish(r, "200")
       ELSE /\ events' = events
            /\ req' = Finish(r, "fk_error")
    /\ UNCHANGED <<rows, nextStream, recordingProcesses, procs, hlsDir,
                   notifications, now, cloud, overlap, stamp, wsVars, user_id, apiVars,
                   authVars, page, pathVars, quiz>>

\* ------------------------------------------------------------ deleteStream
DeleteStreamCall(s) ==
    /\ CanBegin
    /\ overlap' = (overlap \/ Running # {})
    /\ req' = IF ~rows[s].exists THEN BeginDone("delete", s, "not_found")
              ELSE Begin("delete", s, "del_rec")
    /\ UNCHANGED <<rows, nextStream, events, recordingProcesses, procs,
                   hlsDir, notifications, now, cloud, stamp, wsVars, user_id,
                   metadata, authVars, page, pathVars, quiz>>

\* deleteStream(streamId) is called by a caller other than the stream routes
DeleteStreamRead(s) == DeleteStreamCall(s) /\ UNCHANGED <<http, authVars, page, pathVars, quiz>>

\* mutant: deleteStream without its call of stopRecording
DeleteStreamRecordingSkipped(r) ==
    /\ req[r].pc = "del_rec"
    /\ req' = Goto(r, "del_files")
    /\ UNCHANGED <<rows, nextStream, events, recordingProcesses, procs,
                   hlsDir, notifications, now, cloud, overlap, stamp, wsVars, user_id, apiVars,
                   authVars, page, pathVars, quiz>>

\* await this.stopRecording(streamId)
DeleteStreamRecording(r) ==
    LET s == req[r].sid IN
    /\ req[r].pc = "del_rec"
    /\ procs' = StopRecordingProcs(s)
    /\ recordingProcesses' = StopRecordingMap(s)
    /\ req' = Goto(r, "del_files")
    /\ UNCHANGED <<rows, nextStream, events, hlsDir, notifications, now,
                   cloud, overlap, stamp, wsVars, user_id, apiVars, authVars, page,
                   pathVars, quiz>>

\* unlinkSync / rmSync of the paths that were read
DeleteStreamFiles(r, removed) ==
    LET s == req[r].sid IN
    /\ req[r].pc = "del_files"
    /\ IF removed
       THEN /\ hlsDir' = IF req[r].paths THEN [hlsDir EXCEPT ![s] = FALSE]
                         ELSE hlsDir
            /\ req' = Goto(r, "del_row")
       ELSE \* unlinkSync or rmSync throws: the record is not deleted
            /\ req[r].paths
            /\ hlsDir' = hlsDir
            /\ req' = Finish(r, "unlink_error")
    /\ UNCHANGED <<rows, nextStream, events, recordingProcesses, procs,
                   notifications, now, cloud, overlap, stamp, wsVars, user_id, apiVars,
                   authVars, page, pathVars, quiz>>

\* mutant: a delete that empties stream_events
CascadeAll(s) == <<>>

\* DELETE FROM streams WHERE id = $1; stream_events rows go with it
\* (stream_id REFERENCES streams(id) ON DELETE CASCADE)
CascadeEvents(s) == SelectSeq(events, LAMBDA e : e.sid # s)

DeleteStreamRow(r) ==
    LET s == req[r].sid IN
    /\ req[r].pc = "del_row"
    /\ rows' = [rows EXCEPT ![s] = NoRow]
    /\ user_id' = [user_id EXCEPT ![s] = NoUser]
    /\ metadata' = [metadata EXCEPT ![s] = EmptyMeta]
    /\ events' = CascadeEvents(s)
    /\ req' = Finish(r, "ok")
    /\ UNCHANGED <<nextStream, recordingProcesses, procs, hlsDir,
                   notifications, now, cloud, overlap, stamp, wsVars, http,
                   authVars, page, pathVars, quiz>>

\* ------------------------------------------------------------ ffmpeg
\* ffmpeg.on('close'): the child exits, on its own or after SIGTERM
FfmpegClose(p) ==
    /\ p \in 1..Len(procs)
    /\ procs[p].state = "running"
    /\ procs' = [procs EXCEPT ![p].state = "exited"]
    /\ recordingProcesses' = [recordingProcesses EXCEPT ![procs[p].sid] = NoProc]
    /\ UNCHANGED <<rows, nextStream, events, hlsDir, notifications, req, now,
                   cloud, overlap, stamp, wsVars, user_id, apiVars, authVars, page,
                   pathVars, quiz>>

\* ffmpeg.on('error'): the child could not be spawned
FfmpegError(p) ==
    /\ p \in 1..Len(procs)
    /\ procs[p].state = "spawn_failed"
    /\ procs' = [procs EXCEPT ![p].state = "exited"]
    /\ recordingProcesses' = [recordingProcesses EXCEPT ![procs[p].sid] = NoProc]
    /\ UNCHANGED <<rows, nextStream, events, hlsDir, notifications, req, now,
                   cloud, overlap, stamp, wsVars, user_id, apiVars, authVars, page,
                   pathVars, quiz>>

\* ------------------------------------------------------------ cleanup
\* mutant: a cleanup that clears the map without a signal
KillNone == procs

\* for (const [streamId, process] of this.recordingProcesses)
\*     process.kill('SIGTERM')
KillAll ==
    [p \in DOMAIN procs |->
        IF \E s \in DOMAIN recordingProcesses : recordingProcesses[s] = p
        THEN [procs[p] EXCEPT !.term = TRUE]
        ELSE procs[p]]

\* StreamManager.cleanup(): SIGTERM to every handle, then
\* recordingProcesses.clear()
Cleanup ==
    /\ procs' = KillAll
    /\ recordingProcesses' = [s \in DOMAIN recordingProcesses |-> NoProc]
    /\ UNCHANGED <<rows, nextStream, events, hlsDir, notifications, req, now,
                   cloud, overlap, stamp, wsVars, user_id, apiVars, authVars,
                   page, pathVars, quiz>>

\* ------------------------------------------------------------ stream routes
Routes == {"start", "stop", "get", "quiz", "delete", "analytics"}

\* a body of PUT /:id/quiz-questions: rejected by updateQuizSchema, or a
\* list of 0..MaxQuestions questions; the other routes read no body
Bodies(route) ==
    IF route = "quiz" THEN {InvalidBody} \cup (0..MaxQuestions) ELSE {NULL}

\* mutant: the routes without the comparison of user_id
RouteCheckNoOwner(route, s, u, body) ==
    IF route = "quiz" /\ body = InvalidBody THEN 400
    ELSE IF ~rows[s].exists THEN 404
    ELSE Pass

\* the checks every /:id route makes before it acts: the body (quiz
\* only), then getStream, then stream.user_id !== req.user.id
RouteCheck(route, s, u, body) ==
    IF route = "quiz" /\ body = InvalidBody THEN 400
    ELSE IF ~rows[s].exists THEN 404
    ELSE IF user_id[s] # u THEN 403
    ELSE Pass

\* a request of authenticated user u arrives at a /:id route
HttpRequest(route, s, u, body) ==
    LET st == RouteCheck(route, s, u, body)
        answered == st # Pass \/ route = "get"
    IN
    /\ http.pc \in {"idle", "done"}
    /\ http' = [route |-> route, sid |-> s, user |-> u, body |-> body,
                pc |-> IF answered THEN "done" ELSE "call",
                status |-> IF st # Pass THEN st
                           ELSE IF route = "get" THEN 200 ELSE Pass,
                call |-> 0]
    /\ UNCHANGED <<rows, nextStream, events, recordingProcesses, procs,
                   hlsDir, notifications, req, now, cloud, overlap, stamp,
                   wsVars, user_id, metadata, authVars, page,
                   pathVars, quiz>>

\* the route awaits the StreamManager method; call is its invocation
Called == [http EXCEPT !.pc = "wait", !.call = NewReq]

\* await streamManager.startStream(streamId)
HttpStart ==
    /\ http.pc = "call" /\ http.route = "start"
    /\ StartStreamCall(http.sid)
    /\ http' = Called

\* await streamManager.stopStream(streamId)
HttpStop ==
    /\ http.pc = "call" /\ http.route = "stop"
    /\ StopStreamCall(http.sid)
    /\ http' = Called

\* await streamManager.deleteStream(streamId)
HttpDelete ==
    /\ http.pc = "call" /\ http.route = "delete"
    /\ DeleteStreamCall(http.sid)
    /\ http' = Called

\* the awaited method returned (200) or threw (the error handler answers)
HttpRespond ==
    /\ http.pc = "wait"
    /\ req[http.call].pc = "done"
    /\ http' = [http EXCEPT !.pc = "done",
                            !.status = IF req[http.call].result = "ok"
                                       THEN 200 ELSE 500]
    /\ UNCHANGED <<rows, nextStream, events, recordingProcesses, procs,
                   hlsDir, notifications, req, now, cloud, overlap, stamp,
                   wsVars, user_id, metadata, authVars, page,
                   pathVars, quiz>>

\* mutant: the quiz keys alone, without the spread of stream.metadata
MergedBare(old, n) ==
    [k \in QuizKeys |->
        IF k = "quizQuestions" THEN n
        ELSE IF k = "quizEnabled" THEN (IF n > 0 THEN 1 ELSE 0)
        ELSE now]

\* {...stream.metadata, quizQuestions: questions,
\*  quizEnabled: questions.length > 0, quizUpdatedAt: new Date()}
Merged(old, n) ==
    [k \in DOMAIN old \cup QuizKeys |->
        IF k = "quizQuestions" THEN n
        ELSE IF k = "quizEnabled" THEN (IF n > 0 THEN 1 ELSE 0)
        ELSE IF k = "quizUpdatedAt" THEN now
        ELSE old[k]]

\* updateStreamMetadata: UPDATE streams SET metadata = $1 WHERE id = $2
HttpQuiz ==
    LET s == http.sid IN
    /\ http.pc = "call" /\ http.route = "quiz"
    /\ metadata' = IF rows[s].exists
                   THEN [metadata EXCEPT ![s] = Merged(metadata[s], http.body)]
                   ELSE metadata
    /\ http' = [http EXCEPT !.pc = "done", !.status = 200]
    /\ UNCHANGED <<rows, nextStream, events, recordingProcesses, procs,
                   hlsDir, notifications, req, now, cloud, overlap, stamp,
                   wsVars, user_id, authVars, page, pathVars,
                   quiz>>

\* PUT /:id/quiz-questions of user u, up to the result of getStream: 400,
\* 404, 403, or the merged object is built from the row that was read
QuizRead(q, s, u, body) ==
    LET check == RouteCheck("quiz", s, u, body) IN
    /\ quiz[q].pc = "idle"
    /\ \A p \in QuizIds : p < q => quiz[p].pc # "idle"
    /\ quiz' = [quiz EXCEPT ![q] =
                  IF check # Pass
                  THEN [IdleQuiz EXCEPT !.pc = "done", !.sid = s,
                                        !.status = check]
                  ELSE [pc |-> "write", sid |-> s, questions |-> body,
                        read |-> Merged(metadata[s], body), status |-> 0]]
    /\ UNCHANGED <<streamVars, authVars, pathVars>>

\* await streamManager.updateStreamMetadata(streamId, updatedMetadata)
QuizWrite(q) ==
    LET s == quiz[q].sid IN
    /\ quiz[q].pc = "write"
    /\ metadata' = IF rows[s].exists
                   THEN [metadata EXCEPT ![s] = quiz[q].read]
                   ELSE metadata
    /\ quiz' = [quiz EXCEPT ![q].pc = "done", ![q].status = 200]
    /\ UNCHANGED <<rows, nextStream, events, recordingProcesses, procs,
                   hlsDir, notifications, req, now, cloud, overlap, stamp,
                   wsVars, user_id, http, authVars, page, pathVars>>

\* getStreamAnalytics only reads
HttpAnalytics ==
    /\ http.pc = "call" /\ http.route = "analytics"
    /\ http' = [http EXCEPT !.pc = "done", !.status = 200]
    /\ UNCHANGED <<rows, nextStream, events, recordingProcesses, procs,
                   hlsDir, notifications, req, now, cloud, overlap, stamp,
                   wsVars, user_id, metadata, authVars, page,
                   pathVars, quiz>>

\* ------------------------------------------------------------ POST /register
\* SELECT id FROM users WHERE email = $1 OR username = $2 returns a row
Taken(name, email) ==
    \E u \in users : u.email = email \/ u.username = name

\* mutant: a users table without its UNIQUE constraints
ViolatesUniqueNever(name, email) == FALSE

\* username VARCHAR(255) UNIQUE, email VARCHAR(255) UNIQUE: the INSERT of
\* this username and email is refused
ViolatesUnique(name, email) ==
    \E u \in users : u.email = email \/ u.username = name

\* registerSchema.validate, then the lookup: 400, 409, or on to the hash
Register(r, name, email, valid) ==
    /\ reg[r].pc = "idle"
    /\ \A q \in RegIds : q < r => reg[q].pc # "idle"
    /\ reg' = [reg EXCEPT ![r] =
                 [username |-> name, email |-> email,
                  pc |-> IF valid /\ ~Taken(name, email) THEN "hash"
                         ELSE "done",
                  result |-> IF ~valid THEN "400"
                             ELSE IF Taken(name, email) THEN "409"
                             ELSE "none"]]
    /\ UNCHANGED <<users, streamVars, pathVars, quiz>>

\* await bcrypt.hash(password, saltRounds)
RegisterHash(r) ==
    /\ reg[r].pc = "hash"
    /\ reg' = [reg EXCEPT ![r].pc = "insert"]
    /\ UNCHANGED <<users, streamVars, pathVars, quiz>>

\* INSERT INTO users ... RETURNING: 201 with the token, or the constraint
\* error thrown to the error middleware
RegisterInsert(r) ==
    LET name == reg[r].username
        email == reg[r].email IN
    /\ reg[r].pc = "insert"
    /\ IF ViolatesUnique(name, email)
       THEN /\ users' = users
            /\ reg' = [reg EXCEPT ![r].pc = "done", ![r].result = "thrown"]
       ELSE /\ users' = users \cup {[id |-> r, username |-> name,
                                     email |-> email]}
            /\ reg' = [reg EXCEPT ![r].pc = "done", ![r].result = "201"]
    /\ UNCHANGED <<streamVars, pathVars, quiz>>

\* ------------------------------------------------------------ getUserStreams
RECURSIVE OwnedDesc(_, _)
\* the streams of u among 1..s, the latest first:
\* WHERE user_id = $1 ORDER BY created_at DESC
OwnedDesc(u, s) ==
    IF s = 0 THEN <<>>
    ELSE (IF rows[s].exists /\ user_id[s] = u THEN <<s>> ELSE <<>>)
             \o OwnedDesc(u, s - 1)

\* SELECT * FROM streams WHERE user_id = $1 ORDER BY created_at DESC
\* LIMIT $2 OFFSET $3
SelectPage(u, limit, offset) ==
    LET all == OwnedDesc(u, nextStream - 1)
        last == IF offset + limit < Len(all) THEN offset + limit
                ELSE Len(all) IN
    SubSeq(all, offset + 1, last)

\* mutant: the count without its WHERE clause
CountAll(u) == Len(SelectSeq([s \in 1..(nextStream - 1) |-> s],
                             LAMBDA s : rows[s].exists))

\* SELECT COUNT(*) FROM streams WHERE user_id = $1
CountOwned(u) == Len(OwnedDesc(u, nextStream - 1))

\* value || fallback for a number: 0 (and NaN) give the fallback
OrDefault(value, fallback) == IF value = 0 THEN fallback ELSE value

\* Math.min
Min(a, b) == IF a < b THEN a ELSE b

\* const page = parseInt(req.query.page) || 1
RoutePage(p) == OrDefault(p, DefaultPage)

\* const limit = Math.min(parseInt(req.query.limit) || 20, 100)
RouteLimit(l) == Min(OrDefault(l, DefaultLimit), LimitCap)

\* const offset = (page - 1) * limit
RouteOffset(p, l) == (RoutePage(p) - 1) * RouteLimit(l)

\* getUserStreams(userId, limit, offset): the two queries are sent
GetUserStreams(u, limit, offset) ==
    /\ page.pc \in {"idle", "done", "failed"}
    /\ page' = [IdlePage EXCEPT !.pc = "queries", !.user = u,
                                !.limit = limit, !.offset = offset]
    /\ UNCHANGED <<rows, nextStream, events, recordingProcesses, procs,
                   hlsDir, notifications, req, now, cloud, overlap, stamp,
                   wsVars, user_id, apiVars, authVars, pathVars,
                   quiz>>

\* the database refuses a negative LIMIT or OFFSET: the Promise.all and
\* getUserStreams reject
ListRejected ==
    /\ page.pc = "queries"
    /\ page.limit < 0 \/ page.offset < 0
    /\ page' = [page EXCEPT !.pc = "failed"]
    /\ UNCHANGED <<rows, nextStream, events, recordingProcesses, procs,
                   hlsDir, notifications, req, now, cloud, overlap, stamp,
                   wsVars, user_id, apiVars, authVars, pathVars,
                   quiz>>

\* GET /api/streams?page=p&limit=l of user u
GetStreams(u, p, l) == GetUserStreams(u, RouteLimit(l), RouteOffset(p, l))

\* the database runs the first query of the Promise.all
ListSelect ==
    /\ page.pc = "queries" /\ ~page.selected
    /\ page.limit >= 0 /\ page.offset >= 0
    /\ page' = [page EXCEPT !.selected = TRUE,
          !.streams = SelectPage(page.user, page.limit, page.offset)]
    /\ UNCHANGED <<rows, nextStream, events, recordingProcesses, procs,
                   hlsDir, notifications, req, now, cloud, overlap, stamp,
                   wsVars, user_id, apiVars, authVars, pathVars,
                   quiz>>

\* the database runs the second query of the Promise.all
ListCount ==
    /\ page.pc = "queries" /\ ~page.counted
    /\ page' = [page EXCEPT !.counted = TRUE,
                            !.total = CountOwned(page.user)]
    /\ UNCHANGED <<rows, nextStream, events, recordingProcesses, procs,
                   hlsDir, notifications, req, now, cloud, overlap, stamp,
                   wsVars, user_id, apiVars, authVars, pathVars,
                   quiz>>

\* both results are in: return {streams, total}
ListReturn ==
    /\ page.pc = "queries" /\ page.selected /\ page.counted
    /\ page' = [page EXCEPT !.pc = "done"]
    /\ UNCHANGED <<rows, nextStream, events, recordingProcesses, procs,
                   hlsDir, notifications, req, now, cloud, overlap, stamp,
                   wsVars, user_id, apiVars, authVars, pathVars,
                   quiz>>

\* ------------------------------------------------------------ paths
RECURSIVE Normalize(_)
\* path.normalize: "." segments are dropped, "seg/.." is resolved
Normalize(p) ==
    IF p = <<>> THEN <<>>
    ELSE LET init == Normalize(SubSeq(p, 1, Len(p) - 1))
             last == p[Len(p)] IN
         IF last = Seg(".") THEN init
         ELSE IF last = Seg("..") /\ init # <<>>
                    /\ init[Len(init)] # Seg("..")
              THEN SubSeq(init, 1, Len(init) - 1)
              ELSE Append(init, last)

\* path.join(root, segment)
Join(root, seg) == Normalize(Append(root, seg))

\* process.env.HLS_PATH || './storage/hls'
HlsRoot ==
    IF env.HLS_PATH # Unset THEN env.HLS_PATH
    ELSE <<Seg("."), Seg("storage"), Seg("hls")>>

\* process.env.RECORDINGS_PATH || './storage/recordings'
RecordingsRoot ==
    IF env.RECORDINGS_PATH # Unset THEN env.RECORDINGS_PATH
    ELSE <<Seg("."), Seg("storage"), Seg("recordings")>>

\* mutant: one recording file for all streams
PathsShared(id) ==
    [hlsDir |-> Join(HlsRoot, Seg(id)),
     recordingPath |-> Join(RecordingsRoot, <<"recording", "mp4">>),
     hlsPath |-> Join(Join(HlsRoot, Seg(id)), <<"index", "m3u8">>)]

\* hlsDir, recordingPath and the manifest path of startRecording
PathsOf(id) ==
    [hlsDir |-> Join(HlsRoot, Seg(id)),
     recordingPath |-> Join(RecordingsRoot, <<id, "mp4">>),
     hlsPath |-> Join(Join(HlsRoot, Seg(id)), <<"index", "m3u8">>)]

\* the environment is set before the server starts
Configure(hls, rec) ==
    /\ env = [HLS_PATH |-> Unset, RECORDINGS_PATH |-> Unset]
    /\ \A id \in Uuids : artifacts[id] = NoPaths
    /\ env' = [HLS_PATH |-> hls, RECORDINGS_PATH |-> rec]
    /\ UNCHANGED <<streamVars, authVars, artifacts, quiz>>

\* startRecording computes the paths of stream id
ComputePaths(id) ==
    /\ artifacts' = [artifacts EXCEPT ![id] = PathsOf(id)]
    /\ UNCHANGED <<streamVars, authVars, env, quiz>>

\* ------------------------------------------------------------ websocket
\* wss.on('connection'): clients.add(ws) and the welcome message
WsConnection(c) ==
    /\ readyState[c] = "NONE"
    /\ clients' = Append(clients, c)
    /\ readyState' = [readyState EXCEPT ![c] = "OPEN"]
    /\ inbox' = [inbox EXCEPT ![c] = Append(@, "connected")]
    /\ linked' = linked \cup {c}
    /\ UNCHANGED <<rows, nextStream, events, recordingProcesses, procs,
                   hlsDir, notifications, req, now, cloud, overlap, stamp,
                   user_id, apiVars, authVars, page, pathVars,
                   quiz>>

\* the peer goes away: the socket leaves OPEN before any handler has run
WsDrop(c) ==
    /\ readyState[c] = "OPEN"
    /\ readyState' = [readyState EXCEPT ![c] = "CLOSED"]
    /\ UNCHANGED <<rows, nextStream, events, recordingProcesses, procs,
                   hlsDir, notifications, req, now, cloud, overlap, stamp,
                   clients, inbox, user_id, apiVars, authVars, page,
                   pathVars, linked, quiz>>

\* Set.delete
Without(c) == SelectSeq(clients, LAMBDA d : d # c)

\* ws.on('close'): clients.delete(ws)
WsOnClose(c) ==
    /\ readyState[c] \in {"CLOSING", "CLOSED"}
    /\ c \in linked
    /\ clients' = Without(c)
    /\ readyState' = [readyState EXCEPT ![c] = "CLOSED"]
    /\ linked' = linked \ {c}
    /\ UNCHANGED <<rows, nextStream, events, recordingProcesses, procs,
                   hlsDir, notifications, req, now, cloud, overlap, stamp,
                   inbox, user_id, apiVars, authVars, page, pathVars,
                   quiz>>

\* mutant: an 'error' handler that keeps the socket in the set
WsOnErrorKeeps(c) ==
    /\ readyState[c] = "OPEN"
    /\ c \in linked
    /\ readyState' = [readyState EXCEPT ![c] = "CLOSED"]
    /\ linked' = linked \ {c}
    /\ UNCHANGED <<rows, nextStream, events, recordingProcesses, procs,
                   hlsDir, notifications, req, now, cloud, overlap, stamp,
                   inbox, user_id, apiVars, authVars, page, pathVars,
                   clients, quiz>>

\* ws.on('error'): clients.delete(ws); the socket is closed by the library
WsOnError(c) ==
    /\ readyState[c] = "OPEN"
    /\ c \in linked
    /\ clients' = Without(c)
    /\ readyState' = [readyState EXCEPT ![c] = "CLOSED"]
    /\ linked' = linked \ {c}
    /\ UNCHANGED <<rows, nextStream, events, recordingProcesses, procs,
                   hlsDir, notifications, req, now, cloud, overlap, stamp,
                   inbox, user_id, apiVars, authVars, page, pathVars,
                   quiz>>

\* getConnectedClientsCount(): this.clients.size
getConnectedClientsCount == Len(clients)

\* WebSocketManager.cleanup(): close() on every OPEN client, then
\* clients.clear(); the 'close' events of the sockets come later
WsCleanup ==
    /\ readyState' = [c \in ClientIds |->
                         IF c \in OpenClients THEN "CLOSING"
                         ELSE readyState[c]]
    /\ clients' = <<>>
    /\ UNCHANGED <<rows, nextStream, events, recordingProcesses, procs,
                   hlsDir, notifications, req, now, cloud, overlap, stamp,
                   inbox, user_id, apiVars, authVars, page, pathVars,
                   linked, quiz>>

\* ------------------------------------------------------------ clock
Tick ==
    /\ now < MaxTime
    /\ now' = now + 1
    /\ UNCHANGED <<rows, nextStream, events, recordingProcesses, procs,
                   hlsDir, notifications, req, cloud, overlap, stamp, wsVars, user_id, apiVars,
                   authVars, page, pathVars, quiz>>

Next ==
    \/ CreateStream
    \/ \E s \in StreamIds : StartStreamRead(s)
    \/ \E r \in ReqIds : StartStreamUpdate(r)
    \/ \E r \in ReqIds : StartRecording(r)
    \/ \E r \in ReqIds : StartRecordingPaths(r)
    \/ \E r \in ReqIds : StartStreamLog(r)
    \/ \E r \in ReqIds : StartStreamBroadcast(r)
    \/ \E s \in StreamIds : StopStreamRead(s)
    \/ \E r \in ReqIds : StopStreamRecording(r)
    \/ \E r \in ReqIds : StopStreamUpdate(r)
    \/ \E r \in ReqIds : StopStreamUpload(r)
    \/ \E r \in ReqIds : StopStreamLog(r)
    \/ \E r \in ReqIds : StopStreamBroadcast(r)
    \/ \E s \in StreamIds : PublishLookup(s)
    \/ \E r \in ReqIds : PublishUpdate(r)
    \/ \E r \in ReqIds : PublishLog(r)
    \/ \E s \in StreamIds : UnpublishLookup(s)
    \/ \E r \in ReqIds : UnpublishDuration(r)
    \/ \E r \in ReqIds : UnpublishUpdate(r)
    \/ \E r \in ReqIds : UnpublishLog(r)
    \/ \E s \in StreamIds : DeleteStreamRead(s)
    \/ \E r \in ReqIds : DeleteStreamRecording(r)
    \/ \E r \in ReqIds, removed \in BOOLEAN : DeleteStreamFiles(r, removed)
    \/ \E r \in ReqIds : DeleteStreamRow(r)
    \/ \E p \in Pids : FfmpegClose(p)
    \/ \E p \in Pids : FfmpegError(p)
    \/ Tick

Spec == Init /\ [][Next]_vars

\* the handlers invoked one at a time (each call awaited before the next, as
\* in the lifecycle test), with the call and return times recorded
InitSeq == Fresh /\ stamp = TRUE
NextSeq ==
    \/ CreateStream
    \/ \E s \in StreamIds : Running = {} /\ StartStreamRead(s)
    \/ \E r \in ReqIds : StartStreamUpdate(r)
    \/ \E r \in ReqIds : StartRecording(r)
    \/ \E r \in ReqIds : StartRecordingPaths(r)
    \/ \E r \in ReqIds : StartStreamLog(r)
    \/ \E r \in ReqIds : StartStreamBroadcast(r)
    \/ \E s \in StreamIds : Running = {} /\ StopStreamRead(s)
    \/ \E r \in ReqIds : StopStreamRecording(r)
    \/ \E r \in ReqIds : StopStreamUpdate(r)
    \/ \E r \in ReqIds : StopStreamUpload(r)
    \/ \E r \in ReqIds : StopStreamLog(r)
    \/ \E r \in ReqIds : StopStreamBroadcast(r)
    \/ \E s \in StreamIds : Running = {} /\ PublishLookup(s)
    \/ \E r \in ReqIds : PublishUpdate(r)
    \/ \E r \in ReqIds : PublishLog(r)
    \/ \E s \in StreamIds : Running = {} /\ UnpublishLookup(s)
    \/ \E r \in ReqIds : UnpublishDuration(r)
    \/ \E r \in ReqIds : UnpublishUpdate(r)
    \/ \E r \in ReqIds : UnpublishLog(r)
    \/ \E s \in StreamIds : Running = {} /\ DeleteStreamRead(s)
    \/ \E r \in ReqIds : DeleteStreamRecording(r)
    \/ \E r \in ReqIds, removed \in BOOLEAN : DeleteStreamFiles(r, removed)
    \/ \E r \in ReqIds : DeleteStreamRow(r)
    \/ \E p \in Pids : FfmpegClose(p)
    \/ \E p \in Pids : FfmpegError(p)
    \/ Tick
SpecSeq == InitSeq /\ [][NextSeq]_vars

\* the steps of handler r that wait for the local database, the file
\* system or nothing at all: the event loop runs them once they are ready.
\* The settling of the upload is not among them, it depends on the remote
\* storage service answering.
Continue(r) ==
    \/ StartStreamUpdate(r) \/ StartRecording(r) \/ StartRecordingPaths(r)
    \/ StartStreamLog(r) \/ StartStreamBroadcast(r)
    \/ StopStreamRecording(r) \/ StopStreamUpdate(r)
    \/ StopStreamLog(r) \/ StopStreamBroadcast(r)
    \/ PublishUpdate(r) \/ PublishLog(r)
    \/ UnpublishDuration(r) \/ UnpublishUpdate(r) \/ UnpublishLog(r)
    \/ DeleteStreamRecording(r) \/ DeleteStreamRow(r)
    \/ \E removed \in BOOLEAN : DeleteStreamFiles(r, removed)

\* startStream and stopStream called one after the other while websocket
\* clients connect and disconnect
NextWs ==
    \/ CreateStream
    \/ \E s \in StreamIds : Running = {} /\ StartStreamRead(s)
    \/ \E r \in ReqIds : StartStreamUpdate(r)
    \/ \E r \in ReqIds : StartRecording(r)
    \/ \E r \in ReqIds : StartRecordingPaths(r)
    \/ \E r \in ReqIds : StartStreamLog(r)
    \/ \E r \in ReqIds : StartStreamBroadcast(r)
    \/ \E s \in StreamIds : Running = {} /\ StopStreamRead(s)
    \/ \E r \in ReqIds : StopStreamRecording(r)
    \/ \E r \in ReqIds : StopStreamUpdate(r)
    \/ \E r \in ReqIds : StopStreamUpload(r)
    \/ \E r \in ReqIds : StopStreamLog(r)
    \/ \E r \in ReqIds : StopStreamBroadcast(r)
    \/ \E c \in ClientIds : WsConnection(c)
    \/ \E c \in ClientIds : WsDrop(c)
    \/ \E c \in ClientIds : WsOnClose(c)
    \/ \E c \in ClientIds : WsOnError(c)
    \/ WsCleanup
SpecWs == Init /\ [][NextWs]_vars

\* the stream routes serve one request after the other; streams are
\* created by any user
NextHttp ==
    \/ \E u \in UserIds : CreateStreamBy(u)
    \/ \E route \in Routes, s \in StreamIds, u \in UserIds :
          \E body \in Bodies(route) : HttpRequest(route, s, u, body)
    \/ HttpStart
    \/ HttpStop
    \/ HttpDelete
    \/ HttpQuiz
    \/ HttpAnalytics
    \/ HttpRespond
    \/ \E r \in ReqIds : StartStreamUpdate(r)
    \/ \E r \in ReqIds : StartRecording(r)
    \/ \E r \in ReqIds : StartRecordingPaths(r)
    \/ \E r \in ReqIds : StartStreamLog(r)
    \/ \E r \in ReqIds : StartStreamBroadcast(r)
    \/ \E r \in ReqIds : StopStreamRecording(r)
    \/ \E r \in ReqIds : StopStreamUpdate(r)
    \/ \E r \in ReqIds : StopStreamUpload(r)
    \/ \E r \in ReqIds : StopStreamLog(r)
    \/ \E r \in ReqIds : StopStreamBroadcast(r)
    \/ \E r \in ReqIds : DeleteStreamRecording(r)
    \/ \E r \in ReqIds, removed \in BOOLEAN : DeleteStreamFiles(r, removed)
    \/ \E r \in ReqIds : DeleteStreamRow(r)
SpecHttp == Init /\ [][NextHttp]_vars

\* register requests, overlapping at will
NextAuth ==
    \/ \E r \in RegIds, name \in Names, email \in Emails, valid \in BOOLEAN :
          Register(r, name, email, valid)
    \/ \E r \in RegIds : RegisterHash(r)
    \/ \E r \in RegIds : RegisterInsert(r)
SpecAuth == Init /\ [][NextAuth]_vars

\* the listing of a table of several streams that users keep adding to
InitList == FreshOf(ListIds) /\ stamp = FALSE
NextList ==
    \/ \E u \in UserIds : CreateStreamBy(u)
    \/ \E u \in UserIds, limit \in Limits, offset \in Limits :
          GetUserStreams(u, limit, offset)
    \/ ListSelect
    \/ ListCount
    \/ ListReturn
SpecList == InitList /\ [][NextList]_vars

\* several streams side by side: the triggers of Next, on any of them;
\* the clock is read between the handlers, the recordings are uploaded
InitPair == FreshOf(PairIds) /\ stamp = FALSE /\ cloud
NextPair ==
    \/ CreateStream
    \/ \E s \in PairIds : StartStreamRead(s)
    \/ \E r \in ReqIds : StartStreamUpdate(r)
    \/ \E r \in ReqIds : StartRecording(r)
    \/ \E r \in ReqIds : StartRecordingPaths(r)
    \/ \E r \in ReqIds : StartStreamLog(r)
    \/ \E r \in ReqIds : StartStreamBroadcast(r)
    \/ \E s \in PairIds : StopStreamRead(s)
    \/ \E r \in ReqIds : StopStreamRecording(r)
    \/ \E r \in ReqIds : StopStreamUpdate(r)
    \/ \E r \in ReqIds : StopStreamUpload(r)
    \/ \E r \in ReqIds : StopStreamLog(r)
    \/ \E r \in ReqIds : StopStreamBroadcast(r)
    \/ \E s \in PairIds : PublishLookup(s)
    \/ \E r \in ReqIds : PublishUpdate(r)
    \/ \E r \in ReqIds : PublishLog(r)
    \/ \E s \in PairIds : UnpublishLookup(s)
    \/ \E r \in ReqIds : UnpublishDuration(r)
    \/ \E r \in ReqIds : UnpublishUpdate(r)
    \/ \E r \in ReqIds : UnpublishLog(r)
    \/ \E s \in PairIds : DeleteStreamRead(s)
    \/ \E r \in ReqIds : DeleteStreamRecording(r)
    \/ \E r \in ReqIds, removed \in BOOLEAN : DeleteStreamFiles(r, removed)
    \/ \E r \in ReqIds : DeleteStreamRow(r)
    \/ \E p \in Pids : FfmpegClose(p)
    \/ \E p \in Pids : FfmpegError(p)
    \/ Running = {} /\ Tick
SpecPair == InitPair /\ [][NextPair]_vars

\* the paths of the streams under the roots that are configured
NextPaths ==
    \/ \E hls, rec \in Roots \cup {Unset} : Configure(hls, rec)
    \/ \E id \in Uuids : ComputePaths(id)
SpecPaths == Init /\ [][NextPaths]_vars

\* several streams that are started and stopped, their children, and the
\* cleanup of the SIGTERM handler
NextShutdown ==
    \/ CreateStream
    \/ \E s \in PairIds : StartStreamRead(s)
    \/ \E r \in ReqIds : StartStreamUpdate(r)
    \/ \E r \in ReqIds : StartRecording(r)
    \/ \E r \in ReqIds : StartRecordingPaths(r)
    \/ \E r \in ReqIds : StartStreamLog(r)
    \/ \E r \in ReqIds : StartStreamBroadcast(r)
    \/ \E s \in PairIds : StopStreamRead(s)
    \/ \E r \in ReqIds : StopStreamRecording(r)
    \/ \E r \in ReqIds : StopStreamUpdate(r)
    \/ \E r \in ReqIds : StopStreamUpload(r)
    \/ \E r \in ReqIds : StopStreamLog(r)
    \/ \E r \in ReqIds : StopStreamBroadcast(r)
    \/ \E p \in Pids : FfmpegClose(p)
    \/ \E p \in Pids : FfmpegError(p)
    \/ Cleanup
SpecShutdown == InitPair /\ [][NextShutdown]_vars

\* quiz updates that overlap, on streams created with some metadata
NextQuiz ==
    \/ \E u \in UserIds, meta \in Metas : CreateStreamWith(u, meta)
    \/ \E q \in QuizIds, s \in StreamIds, u \in UserIds :
          \E body \in Bodies("quiz") : QuizRead(q, s, u, body)
    \/ \E q \in QuizIds : QuizWrite(q)
    \/ Tick
SpecQuiz == Init /\ [][NextQuiz]_vars

\* the listing route with the page and limit values of the query string
NextListRoute ==
    \/ \E u \in UserIds : CreateStreamBy(u)
    \/ \E u \in UserIds, p \in QueryValues, l \in QueryValues :
          GetStreams(u, p, l)
    \/ ListRejected
    \/ ListSelect
    \/ ListCount
    \/ ListReturn
SpecListRoute == InitList /\ [][NextListRoute]_vars

\* the sequential caller with handlers that are always continued
SpecSeqFair == SpecSeq /\ \A r \in ReqIds : WF_vars(Continue(r))

\* ------------------------------------------------------------ observations
\* the invocations that were made on stream s
OnStream(s) == {r \in Issued : req[r].sid = s}

\* the ffmpeg children spawned for stream s
Spawned(s) == {p \in DOMAIN procs : procs[p].sid = s}

\* the children of s that run and were not sent SIGTERM
Alive(s) == {p \in Spawned(s) : procs[p].state = "running" /\ ~procs[p].term}

\* no handler is between two of its steps
Quiescent == Running = {}

\* no directory creation, spawn, file removal or insert has failed
NoFailure ==
    /\ \A r \in ReqIds :
          req[r].result \notin {"mkdir_error", "fk_error", "unlink_error",
                                "send_error"}
    /\ \A p \in DOMAIN procs : procs[p].state # "spawn_failed"

\* the triggers so far were executed one at a time, and none met a failure
OneAtATime == ~overlap /\ NoFailure

\* request q executes the statement that writes the status of its stream
StatusWrite(q) ==
    /\ req[q].pc \in {"start_update", "stop_update", "pub_update",
                      "unpub_update", "del_row"}
    /\ req'[q].pc # req[q].pc
    /\ rows[req[q].sid].exists

\* request r has read the row of its stream and has not yet written it
InWindow(r) ==
    req[r].pc \in {"start_update", "stop_rec", "stop_update", "unpub_calc",
                   "unpub_update", "del_rec", "del_files", "del_row"}

\* ------------------------------------------------------------ claims
\* C1: a start and an ingest_begun fired on the same stream while it is
\* `created` end with exactly one recording subprocess spawned and exactly
\* one of the two accepted, the other rejected as already live.
C1_RaceOneWinner ==
    \A a, b \in ReqIds :
        ( /\ req[a].op = "start" /\ req[b].op = "publish"
          /\ req[a].sid = req[b].sid
          /\ OnStream(req[a].sid) = {a, b}
          /\ req[a].st0 = "created" /\ req[b].st0 = "created"
          /\ req[a].pc = "done" /\ req[b].pc = "done"
          /\ req[a].result \in {"ok", "already_live"}
          /\ req[b].result \in {"200", "already_live"} )
        => /\ Cardinality(Spawned(req[a].sid)) = 1
           /\ (req[a].result = "already_live") # (req[b].result = "already_live")

\* C2: while only start triggers (startStream, ingest_begun) have been issued
\* on a stream, at most one spawned and not terminated recording subprocess
\* exists for it.
C2_AtMostOneProcess ==
    \A s \in StreamIds :
        (\A r \in OnStream(s) : req[r].op \in {"start", "publish"})
        => Cardinality(Alive(s)) <= 1

\* C3: no trigger writes the status of a stream between another trigger's
\* read of that stream's row and that trigger's own write.
C3_Serialized ==
    [][\A r, q \in ReqIds :
         (r # q /\ InWindow(r) /\ req[q].sid = req[r].sid) => ~StatusWrite(q)]_vars

\* C4: a start trigger (startStream or ingest_begun) that finds its stream
\* `live` changes nothing (row, events, processes, handle, notifications)
\* and ends rejected as already live.
C4_StartOnLiveRejected ==
    [][\A r \in ReqIds :
         ( /\ req'[r] # req[r]
           /\ req'[r].op \in {"start", "publish"}
           /\ req'[r].st0 = "live"
           /\ OneAtATime' )
         => /\ rows' = rows /\ events' = events /\ procs' = procs
            /\ recordingProcesses' = recordingProcesses
            /\ notifications' = notifications
            /\ (req'[r].pc = "done" => req'[r].result = "already_live")]_vars

\* C5: the status of a stream is monotonic: `ended` and `error` never become
\* `live` or `created`, and `live` never becomes `created`; stated for the
\* steps of triggers that are executed one at a time.
C5_StatusMonotonic ==
    [][\A s \in StreamIds :
         OneAtATime'
         => /\ (rows[s].status \in {"ended", "error"}
                  => rows'[s].status \notin {"live", "created"})
            /\ (rows[s].status = "live" => rows'[s].status # "created")]_vars

\* C6: with the triggers executed one at a time, a stopStream issued after
\* a stopStream on the same `live` stream has completed finds the stream
\* `ended`, changes nothing (row, events, notifications) and does not succeed.
C6_SecondStopRejected ==
    [][\A r \in ReqIds :
         ( /\ req'[r] # req[r]
           /\ req'[r].op = "stop" /\ req'[r].st0 = "ended"
           /\ OneAtATime'
           /\ \E q \in ReqIds \ {r} :
                 /\ req[q].op = "stop" /\ req[q].sid = req'[r].sid
                 /\ req[q].st0 = "live"
                 /\ req[q].pc = "done" /\ req[q].result = "ok" )
         => /\ rows' = rows /\ events' = events
            /\ notifications' = notifications
            /\ (req'[r].pc = "done" => req'[r].result # "ok")]_vars

\* C7: once the recording subprocess of a stream started by startStream has
\* exited or errored on its own and every handler has run to its end, the
\* stream is `error` with end_time and duration set: it is not left `live`
\* with no subprocess.
C7_UnexpectedExitMovesToError ==
    \A s \in StreamIds :
        ( /\ Quiescent
          /\ OnStream(s) # {}
          /\ \A r \in OnStream(s) : req[r].op = "start" /\ req[r].result = "ok"
          /\ \E p \in Spawned(s) : procs[p].state = "exited" /\ ~procs[p].term
          /\ Alive(s) = {} )
        => /\ rows[s].status = "error"
           /\ rows[s].end_time # NULL
           /\ rows[s].duration # NULL

\* C8: in a quiescent state a recording handle exists for a stream only if
\* the stream's persisted status is `live`, already when the triggers were
\* executed one at a time.
C8_HandleOnlyWhenLive ==
    (Quiescent /\ OneAtATime) =>
        \A s \in StreamIds :
            recordingProcesses[s] # NoProc => rows[s].status = "live"

\* C9: a startStream whose directory creation fails commits nothing: the
\* stream is still `created`, start_time is unset and no stream_started
\* event or notification exists (the start is the only trigger on the stream).
C9_FailedStartNotCommitted ==
    \A r \in ReqIds :
        ( /\ req[r].op = "start" /\ req[r].result = "mkdir_error"
          /\ OnStream(req[r].sid) = {r} )
        => /\ rows[req[r].sid].status = "created"
           /\ rows[req[r].sid].start_time = NULL
           /\ \A i \in DOMAIN events : events[i].sid # req[r].sid
           /\ \A i \in DOMAIN notifications : notifications[i].sid # req[r].sid

\* C10: start_time, end_time and duration of a stream are written once: with
\* the triggers executed one at a time, no step changes one that is set.
C10_TimingWrittenOnce ==
    [][\A s \in StreamIds :
         (OneAtATime' /\ rows[s].exists /\ rows'[s].exists)
         => /\ (rows[s].start_time # NULL
                  => rows'[s].start_time = rows[s].start_time)
            /\ (rows[s].end_time # NULL
                  => rows'[s].end_time = rows[s].end_time)
            /\ (rows[s].duration # NULL
                  => rows'[s].duration = rows[s].duration)]_vars

\* the events logged for stream s, and the notifications broadcast for it
EventsOf(s) == SelectSeq(events, LAMBDA e : e.sid = s)
NotificationsOf(s) == SelectSeq(notifications, LAMBDA n : n.sid = s)

\* the positions in the sequence log of the entries of stream s of a type
Positions(log, s, type) ==
    {i \in DOMAIN log : log[i].sid = s /\ log[i].type = type}

\* C11: for every stream that is `ended`, the stored duration equals the
\* stored end_time minus the stored start_time (whole seconds), or 0 when
\* start_time was never set; already with the triggers executed one at a time.
C11_DurationIsEndMinusStart ==
    \A s \in StreamIds :
        (OneAtATime /\ rows[s].status = "ended")
        => rows[s].duration = IF rows[s].start_time = NULL THEN 0
                              ELSE rows[s].end_time - rows[s].start_time

\* C12: in a run createStream -> startStream -> (time passes) -> stopStream
\* on one stream, with each call awaited and no failure: the stream is
\* `created` after creation; `live` with start_time set and exactly one
\* subprocess, registered as the handle while it runs, after the start; and
\* after the stop `ended` with end_time set, a duration at least the time
\* between the return of the start and the call of the stop, no handle, and
\* exactly one stream_started and one stream_ended event.
C12_Lifecycle ==
    \A s \in StreamIds :
        /\ (rows[s].exists /\ OnStream(s) = {}) => rows[s].status = "created"
        /\ \A a \in ReqIds :
             ( /\ OnStream(s) = {a} /\ NoFailure
               /\ req[a].op = "start" /\ req[a].result = "ok" )
             => /\ rows[s].status = "live"
                /\ rows[s].start_time # NULL
                /\ Cardinality(Spawned(s)) = 1
                /\ (Alive(s) # {} => recordingProcesses[s] \in Alive(s))
                /\ Positions(events, s, "stream_ended") = {}
        /\ \A a, b \in ReqIds :
             ( /\ OnStream(s) = {a, b} /\ NoFailure
               /\ req[a].op = "start" /\ req[a].result = "ok"
               /\ req[b].op = "stop" /\ req[b].st0 = "live" )
             => /\ (req[b].pc \in {"stop_update", "stop_upload", "stop_log",
                                   "stop_bcast"}
                      => req[b].duration >= req[b].at - req[a].at)
                /\ (req[b].pc = "done"
                      => /\ req[b].result = "ok"
                         /\ rows[s].status = "ended"
                         /\ rows[s].end_time # NULL
                         /\ rows[s].duration = req[b].duration
                         /\ rows[s].duration >= 0
                         /\ recordingProcesses[s] = NoProc
                         /\ Alive(s) = {}
                         /\ Cardinality(Positions(events, s, "stream_started")) = 1
                         /\ Cardinality(Positions(events, s, "stream_ended")) = 1)

\* a stream stopped two time units after its start returned
C12_Witness ==
    \E a, b \in ReqIds :
        /\ OnStream(1) = {a, b} /\ NoFailure
        /\ req[a].op = "start" /\ req[a].result = "ok"
        /\ req[b].op = "stop" /\ req[b].result = "ok" /\ req[b].st0 = "live"
        /\ rows[1].status = "ended" /\ rows[1].duration >= 2

\* C13: events and notifications of a stream appear in the order in which
\* the transitions wrote the status: when a start and a stop, the only calls
\* on the stream, both succeeded without failure and the stop's status write
\* came last (the stream is `ended`), stream_started precedes stream_ended
\* in the event log and in the notifications.
C13_EventsInCommitOrder ==
    \A s \in StreamIds : \A a, b \in ReqIds :
        ( /\ OnStream(s) = {a, b} /\ NoFailure /\ Quiescent
          /\ req[a].op = "start" /\ req[a].result = "ok"
          /\ req[b].op = "stop" /\ req[b].result = "ok"
          /\ rows[s].status = "ended" )
        => /\ \A i \in Positions(events, s, "stream_started") :
                \A j \in Positions(events, s, "stream_ended") : i < j
           /\ \A i \in Positions(notifications, s, "stream_started") :
                \A j \in Positions(notifications, s, "stream_ended") : i < j

\* C14: every committed status change comes with exactly one event and
\* exactly one notification: after the single successful call on a stream
\* (startStream, stopStream, POST /publish or POST /unpublish) on a `created`
\* stream, which wrote its status, one event and one notification of the
\* stream exist.
C14_OneEventOneNotification ==
    \A s \in StreamIds : \A a \in ReqIds :
        ( /\ OnStream(s) = {a} /\ NoFailure /\ req[a].st0 = "created"
          /\ req[a].op \in {"start", "stop", "publish", "unpublish"}
          /\ req[a].pc = "done" /\ req[a].result \in {"ok", "200"} )
        => /\ Len(EventsOf(s)) = 1
           /\ Len(NotificationsOf(s)) = 1

\* C15: an accepted POST /publish on a `created` stream leaves the state
\* startStream leaves: status `live`, start_time set, one recording
\* subprocess spawned and registered while it runs, artifact paths written,
\* a stream_started event and a stream_started notification.
C15_PublishIsStart ==
    \A s \in StreamIds : \A a \in ReqIds :
        ( /\ OnStream(s) = {a} /\ NoFailure
          /\ req[a].op = "publish" /\ req[a].st0 = "created"
          /\ req[a].pc = "done" /\ req[a].result = "200" )
        => /\ rows[s].status = "live"
           /\ rows[s].start_time # NULL
           /\ Cardinality(Spawned(s)) = 1
           /\ (Alive(s) # {} => recordingProcesses[s] \in Alive(s))
           /\ rows[s].paths
           /\ Positions(events, s, "stream_started") # {}
           /\ Positions(notifications, s, "stream_started") # {}

\* C16: POST /unpublish on a `live` stream leaves the state stopStream
\* leaves (subprocess sent SIGTERM, handle removed, status `ended`, end_time
\* and duration set, stream_ended event and notification), and on a stream
\* that is not `live` it is rejected and leaves the row as it was.
C16_UnpublishIsStop ==
    \A s \in StreamIds :
        /\ \A a, b \in ReqIds :
             ( /\ OnStream(s) = {a, b} /\ OneAtATime
               /\ req[a].op = "start" /\ req[a].result = "ok"
               /\ req[b].op = "unpublish" /\ req[b].st0 = "live"
               /\ req[b].pc = "done" )
             => /\ rows[s].status = "ended"
                /\ rows[s].end_time # NULL
                /\ rows[s].duration # NULL
                /\ Alive(s) = {}
                /\ recordingProcesses[s] = NoProc
                /\ Positions(events, s, "stream_ended") # {}
                /\ Positions(notifications, s, "stream_ended") # {}
        /\ \A b \in ReqIds :
             ( /\ OnStream(s) = {b} /\ req[b].op = "unpublish"
               /\ req[b].st0 = "created" /\ req[b].pc = "done" )
             => /\ req[b].result # "200"
                /\ rows[s].status = "created"

\* C17: deleteStream on an existing stream, not overlapped by another call,
\* first terminates and removes the handle (the files and the row are still
\* there), then removes the artifact files (the row is still there), then
\* deletes the row; once it returned the stream has no handle and no row.
C17_DeleteOrder ==
    \A d \in ReqIds :
        LET s == req[d].sid IN
        (req[d].op = "delete" /\ ~overlap)
        => /\ (req[d].pc = "del_rec" => rows[s].exists)
           /\ (req[d].pc = "del_files"
                 => /\ recordingProcesses[s] = NoProc /\ Alive(s) = {}
                    /\ (req[d].paths => hlsDir[s])
                    /\ rows[s].exists)
           /\ (req[d].pc = "del_row"
                 => /\ recordingProcesses[s] = NoProc /\ Alive(s) = {}
                    /\ ~hlsDir[s]
                    /\ rows[s].exists)
           /\ (req[d].pc = "done" /\ req[d].result = "ok"
                 => /\ recordingProcesses[s] = NoProc /\ Alive(s) = {}
                    /\ ~hlsDir[s]
                    /\ ~rows[s].exists)

\* a live stream with a running recording was deleted
C17_Witness ==
    \E d \in ReqIds :
        /\ req[d].op = "delete" /\ ~overlap
        /\ req[d].st0 = "live" /\ req[d].paths
        /\ req[d].pc = "done" /\ req[d].result = "ok"
        /\ \E p \in Spawned(req[d].sid) : procs[p].term
        /\ ~rows[req[d].sid].exists

\* C18: when the removal of an artifact file or directory fails in
\* deleteStream, the row is deleted all the same and deleteStream succeeds:
\* a deleteStream that found the row ends with "ok" and the row gone.
C18_DeleteSurvivesFileFailure ==
    \A d \in ReqIds :
        ( /\ req[d].op = "delete" /\ ~overlap
          /\ req[d].pc = "done" /\ req[d].result # "not_found" )
        => /\ req[d].result = "ok"
           /\ ~rows[req[d].sid].exists

\* C19: startStream, stopStream and deleteStream called for a stream id
\* without a row fail with "not found" in their first step and change
\* nothing: no row, no subprocess, no handle, no directory, no event and no
\* notification.
C19_NotFoundNoEffect ==
    [][\A r \in ReqIds :
         ( /\ req[r].pc = "idle" /\ req'[r].pc # "idle"
           /\ req'[r].op \in {"start", "stop", "delete"}
           /\ ~rows[req'[r].sid].exists )
         => /\ req'[r].pc = "done"
            /\ req'[r].result = "not_found"
            /\ UNCHANGED <<rows, events, procs, recordingProcesses,
                           notifications, hlsDir>>]_vars

\* each of the three operations was called on a missing stream
C19_Witness ==
    \A o \in {"start", "stop", "delete"} :
        \E r \in ReqIds :
            /\ req[r].op = o /\ req[r].pc = "done"
            /\ req[r].result = "not_found"
            /\ ~rows[req[r].sid].exists

\* C20: stopRecording is idempotent: in every step that runs it, without a
\* handle no process is signalled and the map stays as it is; with a handle
\* exactly that process is sent SIGTERM; the stream has no handle
\* afterwards, the caller goes on without an error, and running it once
\* more on the resulting state changes nothing.
C20_StopRecordingIdempotent ==
    [][\A r \in ReqIds :
         LET s == req[r].sid
             p == recordingProcesses[s] IN
         (req[r].pc \in {"stop_rec", "del_rec"} /\ req'[r].pc # req[r].pc)
         => /\ (p = NoProc
                  => procs' = procs /\ recordingProcesses' = recordingProcesses)
            /\ (p # NoProc
                  => /\ procs'[p].term
                     /\ \A q \in DOMAIN procs : q # p => procs'[q] = procs[q])
            /\ recordingProcesses'[s] = NoProc
            /\ req'[r].pc \in {"stop_update", "del_files"}
            /\ (StopRecordingProcs(s))' = procs'
            /\ (StopRecordingMap(s))' = recordingProcesses']_vars

\* stopStream ran twice on a started stream, one after the other: both
\* passed stopRecording and the one recording process was sent SIGTERM
C20_Witness ==
    \E a, b \in ReqIds :
        /\ a # b /\ ~overlap
        /\ req[a].op = "stop" /\ req[a].pc = "done" /\ req[a].result = "ok"
        /\ req[a].st0 = "live"
        /\ req[b].op = "stop" /\ req[b].sid = req[a].sid
        /\ req[b].st0 = "ended"
        /\ req[b].pc \notin {"idle", "stop_rec"} /\ req[b].result # "not_found"
        /\ Cardinality(Spawned(req[a].sid)) = 1
        /\ \A p \in Spawned(req[a].sid) : procs[p].term

\* C21: termination sends SIGTERM to the registered process and removes
\* the handle in the same step, without waiting for the exit: in every step
\* in which a process is sent SIGTERM, that process was the handle of its
\* stream, the stream has no handle after the step, and the process is in
\* the same run state as before (its exit is observed later, if at all).
C21_TerminateRemovesHandleAtOnce ==
    [][\A p \in DOMAIN procs :
         (~procs[p].term /\ procs'[p].term)
         => /\ recordingProcesses[procs[p].sid] = p
            /\ recordingProcesses'[procs[p].sid] = NoProc
            /\ procs'[p].state = procs[p].state]_vars

\* stopStream returned while the terminated process still runs, and a later
\* startStream registered a second process as the handle of the stream
C21_Witness ==
    \E a \in ReqIds : \E p1, p2 \in DOMAIN procs :
        LET s == req[a].sid IN
        /\ ~overlap
        /\ req[a].op = "stop" /\ req[a].pc = "done" /\ req[a].result = "ok"
        /\ procs[p1].sid = s /\ procs[p1].term /\ procs[p1].state = "running"
        /\ p2 # p1 /\ recordingProcesses[s] = p2
        /\ procs[p2].state = "running" /\ ~procs[p2].term

\* C22: a failed upload in stopStream neither reverts nor prevents the
\* `ended` transition: for a stopStream not overlapped by another call whose
\* upload was rejected, the stream is `ended` with end_time and the computed
\* duration while the call goes on, the call returns without error, and the
\* stream_ended event and notification are emitted.
C22_UploadFailureKeepsEnded ==
    \A r \in ReqIds :
        LET s == req[r].sid IN
        (req[r].op = "stop" /\ req[r].upload = "failed" /\ ~overlap)
        => /\ req[r].pc \in {"stop_log", "stop_bcast", "done"}
           /\ (req[r].pc \in {"stop_log", "stop_bcast"}
                 => /\ rows[s].status = "ended"
                    /\ rows[s].end_time # NULL
                    /\ rows[s].duration = req[r].duration)
           /\ (req[r].pc \in {"stop_bcast", "done"} /\ rows[s].exists
                 => Positions(events, s, "stream_ended") # {})
           /\ (req[r].pc = "done"
                 => /\ req[r].result = "ok"
                    /\ Positions(notifications, s, "stream_ended") # {})

\* a stopStream whose upload was rejected has returned; the stream is ended
C22_Witness ==
    \E r \in ReqIds :
        /\ req[r].op = "stop" /\ req[r].upload = "failed" /\ ~overlap
        /\ req[r].pc = "done" /\ req[r].result = "ok"
        /\ rows[req[r].sid].status = "ended"
        /\ rows[req[r].sid].end_time # NULL

\* C23: the upload is asynchronous to stopStream: a stopStream that has
\* started the upload returns (having emitted the stream_ended event and
\* notification) whether or not the upload ever settles.
C23_StopNotStalledByUpload ==
    \A r \in ReqIds :
        (req[r].pc = "stop_upload") ~> (req[r].pc = "done")

\* the stream of request r has no recording to stop: no process was ever
\* spawned for it, or every one of them has exited without being signalled
NothingToStop(r) ==
    \A p \in Spawned(req[r].sid) : procs[p].state = "exited" /\ ~procs[p].term

\* C24: a stopStream, not overlapped by another call, on a stream that has
\* a row but no recording process (never launched, or already gone) still
\* writes `ended` with end_time and returns without error; when the row had
\* no start_time the duration it records is 0.
C24_StopWithoutProcess ==
    \A r \in ReqIds :
        LET s == req[r].sid IN
        ( /\ req[r].op = "stop" /\ ~overlap /\ NothingToStop(r)
          /\ req[r].result # "not_found" )
        => /\ (req[r].pc \in {"stop_update", "stop_upload", "stop_log",
                              "stop_bcast", "done"}
                 => /\ req[r].duration # NULL
                    /\ (req[r].start_time = NULL => req[r].duration = 0))
           /\ (req[r].pc \in {"stop_upload", "stop_log", "stop_bcast"}
                 => /\ rows[s].status = "ended"
                    /\ rows[s].end_time # NULL
                    /\ rows[s].duration = req[r].duration)
           /\ (req[r].pc = "done"
                 => /\ req[r].result = "ok"
                    /\ Positions(notifications, s, "stream_ended") # {})

\* a stream that was never started was stopped: it is ended with duration 0
C24_Witness ==
    \E r \in ReqIds :
        /\ req[r].op = "stop" /\ ~overlap /\ Spawned(req[r].sid) = {}
        /\ req[r].st0 = "created" /\ req[r].start_time = NULL
        /\ req[r].pc = "done" /\ req[r].result = "ok"
        /\ rows[req[r].sid].status = "ended"
        /\ rows[req[r].sid].duration = 0

\* C25: an ingest signal whose key matches no stream is rejected: POST
\* /publish and POST /unpublish that found no row for the key do not
\* answer 200.
C25_UnknownKeyRejected ==
    \A r \in ReqIds :
        ( /\ req[r].op \in {"publish", "unpublish"}
          /\ req[r].pc = "done" /\ req[r].st0 = "none" )
        => req[r].result # "200"

\* C26: in every broadcast, each connected OPEN observer either receives
\* the message or, when the send to it failed, is removed from the observer
\* set, and the call that broadcast does not end with the send's error.
C26_BroadcastIsolatesFailure ==
    [][notifications' # notifications
       => LET type == notifications'[Len(notifications')].type IN
          /\ \A r \in ReqIds : req'[r].result # "send_error"
          /\ \A c \in OpenClients :
                \/ inbox'[c] = Append(inbox[c], type)
                \/ c \notin {clients'[i] : i \in DOMAIN clients'}]_vars

\* C27: the event log is append-only: in every step the events recorded
\* before the step are still there afterwards, unchanged and in the same
\* order, as a prefix of the log.
C27_EventsAppendOnly ==
    [][/\ Len(events') >= Len(events)
       /\ SubSeq(events', 1, Len(events)) = events]_vars

\* a step in which the stream routes receive a request
RequestStep == http.pc \in {"idle", "done"} /\ http' # http

\* the request received is a quiz update whose body fails validation
BadQuiz == http'.route = "quiz" /\ http'.body = InvalidBody

\* the step leaves every stream, handle, process, event, notification and
\* StreamManager invocation as it was
NothingChanged ==
    UNCHANGED <<rows, user_id, metadata, recordingProcesses, procs, events,
                notifications, hlsDir, req>>

\* C28, as amended: on every /:id route (start, stop, get, quiz-questions,
\* delete, analytics) a request for a stream that does not exist is
\* answered 404 and a request by a user who is not the owner is answered
\* 403, and neither changes anything, except that a quiz-questions request
\* whose body fails validation is answered 400 (and changes nothing) before
\* the stream is looked up; only the owner's request reaches the
\* StreamManager.
C28_RoutesRejectStrangers ==
    [][/\ RequestStep
          => LET s == http'.sid
                 u == http'.user IN
             /\ NothingChanged
             /\ BadQuiz => http'.pc = "done" /\ http'.status = 400
             /\ (~BadQuiz /\ ~rows[s].exists)
                  => http'.pc = "done" /\ http'.status = 404
             /\ (~BadQuiz /\ rows[s].exists /\ user_id[s] # u)
                  => http'.pc = "done" /\ http'.status = 403
       /\ http'.pc = "call"
          => rows'[http'.sid].exists /\ user_id'[http'.sid] = http'.user
      ]_vars

\* C28 as stated: a request for a missing stream is answered 404 and a
\* request by a user who is not the owner 403, whatever the route and the
\* request, and changes nothing.
C28_Original ==
    [][RequestStep
       => LET s == http'.sid
              u == http'.user IN
          /\ NothingChanged
          /\ ~rows[s].exists => http'.status = 404
          /\ (rows[s].exists /\ user_id[s] # u) => http'.status = 403]_vars

\* the delete request of a user who does not own a live stream was
\* answered 403 and the stream is still there, live and with its handle
C28_Witness ==
    /\ http.pc = "done" /\ http.route = "delete" /\ http.status = 403
    /\ rows[http.sid].exists /\ rows[http.sid].status = "live"
    /\ user_id[http.sid] # http.user
    /\ recordingProcesses[http.sid] # NoProc

\* a register request is received in this step
Received(r) == reg[r].pc = "idle" /\ reg'[r].pc # "idle"

\* the email or the username of the request received belongs to a user
Belongs(r) ==
    \E u \in users : u.email = reg'[r].email \/ u.username = reg'[r].username

\* no two users share an email or a username
UsersUnique ==
    \A u, v \in users :
        u # v => u.email # v.email /\ u.username # v.username

\* C29 (as amended): a register request that passes validation and whose
\* email or username already belongs to a user is answered 409; a request
\* that is not answered 201 creates no user; and whatever the order or the
\* overlap of the requests, no two users share an email or a username.
C29_RegistrationKeepsUsersUnique ==
    [][/\ \A r \in RegIds :
             /\ Received(r) /\ Belongs(r) /\ reg'[r].result # "400" =>
                    reg'[r].result = "409" /\ users' = users
             /\ reg[r].pc # "done" /\ reg'[r].pc = "done"
                    /\ reg'[r].result # "201" => users' = users
       /\ UsersUnique']_vars

\* C29 as stated: every register request whose email or username already
\* belongs to a user is answered 409 and creates no user.
C29_Original ==
    [][\A r \in RegIds :
          Received(r) /\ Belongs(r) =>
              reg'[r].result = "409" /\ users' = users]_vars

\* a duplicate was answered 409, and of two overlapping requests for the
\* same email the second was refused by the table
C29_Witness ==
    \E a, b, c \in RegIds :
        /\ reg[a].result = "201" /\ reg[b].result = "409"
        /\ reg[c].result = "thrown"
        /\ reg[a].email = reg[c].email
        /\ reg[b].email = reg[a].email \/ reg[b].username = reg[a].username

\* the streams that belong to u
OwnedBy(u) == {s \in DOMAIN rows : rows[s].exists /\ user_id[s] = u}

\* the rows selected are streams of the user asked for, limit at most
PageOwned ==
    page.selected =>
        /\ \A i \in 1..Len(page.streams) :
               page.streams[i] \in OwnedBy(page.user)
        /\ Len(page.streams) <= page.limit

\* C30: getUserStreams returns only streams of userId, at most limit of
\* them, and a total that is the number of all streams of userId, whatever
\* the limit and the offset; streams of other users are neither included
\* nor counted.
C30_UserStreamsOnly ==
    [][/\ PageOwned'
       /\ ~page.counted /\ page'.counted =>
             page'.total = Cardinality(OwnedBy(page.user))]_vars

\* a page of limit streams out of more, with a stream of another user in
\* the table
C30_Witness ==
    /\ page.pc = "done"
    /\ page.limit > 0
    /\ Len(page.streams) = page.limit
    /\ page.total > page.limit
    /\ \E s \in DOMAIN rows : rows[s].exists /\ user_id[s] # page.user

\* child p delivers its 'close' or 'error' event in this step
ChildEvent(p) == procs[p].state # "exited" /\ procs'[p].state = "exited"

\* C31: the 'close' or 'error' event of a recording child removes only the
\* handle of that child: when the map holds a newer child for the same
\* stream, the late event of the older child leaves that handle in the map
\* (here for triggers executed one at a time, without failures).
C31_LateEventKeepsNewerHandle ==
    [][\A p \in DOMAIN procs :
          LET s == procs[p].sid IN
          OneAtATime /\ ChildEvent(p) /\ recordingProcesses[s] \notin {p, NoProc}
              => recordingProcesses'[s] = recordingProcesses[s]]_vars

\* C32: no recording child is orphaned: in every reachable state, every
\* child that runs and was not sent SIGTERM is the handle stored in the map
\* under its stream id.
C32_NoOrphan ==
    \A s \in StreamIds : \A p \in Alive(s) : recordingProcesses[s] = p

\* the streams that the handlers and the child events of this step are for
StepStreams ==
    {req'[r].sid : r \in {q \in ReqIds : req'[q] # req[q]}}
        \cup (IF req' = req
              THEN {procs[p].sid : p \in {q \in DOMAIN procs : ChildEvent(q)}}
              ELSE {})

\* what is kept for stream b: its row (status, timing fields, paths), its
\* handle, its directory, its events and its children
StateOf(b) ==
    <<rows[b], recordingProcesses[b], hlsDir[b], EventsOf(b),
      [p \in Spawned(b) |-> procs[p]]>>

\* C33: operations on one stream id never affect another stream: a step of
\* startStream, stopStream, deleteStream, of an ingest signal or a child
\* exit for stream A leaves the status, timing fields, artifact paths,
\* recording handle and events of every other stream B unchanged.
C33_OtherStreamsUntouched ==
    [][nextStream' = nextStream =>
          \A b \in PairIds :
              b \notin StepStreams => StateOf(b)' = StateOf(b)]_vars

\* stream 1 was stopped after stream 2 was started, and stream 2 is live
\* with its handle and its events
C33_Witness ==
    /\ rows[1].status = "ended"
    /\ \E q, r \in ReqIds :
          /\ q < r
          /\ req[q].op = "start" /\ req[q].sid = 2 /\ req[q].result = "ok"
          /\ req[r].op = "stop" /\ req[r].sid = 1
          /\ req[r].st0 = "live" /\ req[r].result = "ok"
    /\ rows[2].status = "live"
    /\ recordingProcesses[2] # NoProc
    /\ EventsOf(2) # <<>>

\* C34: the segmented-playback directory of a stream exists when its
\* recording child is spawned; a start that finds the directory in place
\* does not fail on creating it; and the artifact paths are written to the
\* stream only by a start that has already spawned its child and registered
\* the handle.
C34_DirectoryThenSpawnThenPaths ==
    [][/\ Len(procs') > Len(procs) => hlsDir'[procs'[Len(procs')].sid]
       /\ \A r \in ReqIds :
             req[r].pc = "start_rec" /\ hlsDir[req[r].sid]
                 => req'[r].result # "mkdir_error"
       /\ \A s \in StreamIds :
             ~rows[s].paths /\ rows'[s].paths
                 => \E r \in ReqIds :
                        /\ req[r].pc = "start_paths" /\ req[r].sid = s
                        /\ req'[r].pc # "start_paths"
                        /\ Spawned(s) # {}]_vars

\* a second start found the directory in place, spawned its child, and the
\* paths are written
C34_Witness ==
    \E s \in StreamIds :
        /\ Cardinality(Spawned(s)) >= 2
        /\ hlsDir[s]
        /\ rows[s].paths
        /\ \A r \in ReqIds : req[r].result # "mkdir_error"

\* the stream ids whose paths have been computed
Computed == {id \in Uuids : artifacts[id] # NoPaths}

\* C35: under fixed configured roots the artifact paths are a deterministic,
\* injective function of the stream id: computing them again for the same
\* id yields the same recording path and manifest path, and two different
\* ids never share a recording path or a segmented-playback directory.
C35_PathsInjective ==
    [][env' = env =>
          /\ \A id \in Computed : artifacts'[id] = artifacts[id]
          /\ \A a, b \in Computed' :
                a # b => /\ artifacts'[a].recordingPath
                               # artifacts'[b].recordingPath
                         /\ artifacts'[a].hlsDir # artifacts'[b].hlsDir]_vars

\* the paths of two streams were computed under one root for both kinds
C35_Witness ==
    /\ env.HLS_PATH # Unset
    /\ env.HLS_PATH = env.RECORDINGS_PATH
    /\ Cardinality(Computed) >= 2

\* C36: a broadcast is delivered to exactly the observers that are in the
\* connected set and OPEN at the moment of the broadcast, once to each;
\* every other observer, one that connects later included, receives
\* nothing of it.
C36_BroadcastToOpenObservers ==
    [][notifications' # notifications
       => LET type == notifications'[Len(notifications')].type IN
          \A c \in ClientIds :
              inbox'[c] = IF c \in OpenClients THEN Append(inbox[c], type)
                          ELSE inbox[c]]_vars

\* the members of the observer set
Members == {clients[i] : i \in DOMAIN clients}

\* C37 (as amended): the observer set tracks connections: an observer
\* enters the set at its 'connection' event and leaves it at its 'close' or
\* 'error' event, or earlier when cleanup closes the open observers and
\* empties the set; an observer whose 'close' or 'error' event has fired
\* receives no further broadcast; and getConnectedClientsCount is the number
\* of observers in the set, none of which has closed or errored.
C37_ObserverSetTracksConnections ==
    [][/\ \A c \in ClientIds :
             /\ c \notin linked /\ c \in linked' => Members' = Members \cup {c}
             /\ c \in linked /\ c \notin linked' => Members' = Members \ {c}
             /\ c \notin linked /\ notifications' # notifications
                    => inbox'[c] = inbox[c]
       /\ linked' = linked =>
             \/ Members' = Members
             \/ /\ Members' = {}
                /\ \A c \in Members : readyState'[c] # "OPEN"
       /\ Members' \subseteq linked'
       /\ getConnectedClientsCount' = Cardinality(Members')]_vars

\* C37 as stated: an observer is in the set exactly from its 'connection'
\* event until its 'close' or 'error' event, and getConnectedClientsCount is
\* the number of observers that connected and have not closed or errored.
C37_Original ==
    /\ Members = linked
    /\ getConnectedClientsCount = Cardinality(linked)

\* two observers received a first broadcast; one of them then went away,
\* is out of the set, and received nothing of the second broadcast, in
\* which no send failed
C37_Witness ==
    \E c, d \in ClientIds :
        /\ c \in linked /\ c \in Members
        /\ readyState[d] = "CLOSED" /\ d \notin linked /\ d \notin Members
        /\ getConnectedClientsCount = 1
        /\ Len(notifications) = 2
        /\ notifications[1].type # notifications[2].type
        /\ \A r \in ReqIds : req[r].result # "send_error"
        /\ inbox[d] = <<"connected", notifications[1].type>>
        /\ inbox[c] = <<"connected", notifications[1].type,
                        notifications[2].type>>

\* a step of cleanup that finds a handle: no handler and no child event
\* takes part, and a signal is sent or the map changes
CleanupStep ==
    /\ req' = req
    /\ DOMAIN procs' = DOMAIN procs
    /\ \A p \in DOMAIN procs : procs'[p].state = procs[p].state
    /\ procs' # procs \/ recordingProcesses' # recordingProcesses

\* C38: after StreamManager.cleanup every child that had a handle has been
\* sent SIGTERM and the handle map is empty; cleanup writes no status, so
\* every stream that was live before it is still live, with no handle.
C38_CleanupKillsAndClears ==
    [][CleanupStep =>
          /\ \A s \in DOMAIN recordingProcesses :
                /\ recordingProcesses'[s] = NoProc
                /\ recordingProcesses[s] # NoProc
                       => procs'[recordingProcesses[s]].term
          /\ rows' = rows]_vars

\* two live streams whose children were sent SIGTERM and have no handle
C38_Witness ==
    \A s \in PairIds :
        /\ rows[s].status = "live"
        /\ recordingProcesses[s] = NoProc
        /\ \E p \in Spawned(s) : procs[p].term /\ procs[p].state = "running"

\* quiz invocation q executes its UPDATE on a stream that exists
QuizWritten(q) ==
    /\ quiz[q].pc = "write" /\ quiz'[q].pc = "done"
    /\ rows[quiz[q].sid].exists

\* C39: a quiz update sets quizQuestions to the list given and quizEnabled
\* to true exactly when the list is not empty, and keeps every other
\* metadata key of the stream with its value; this holds for every write,
\* so overlapping quiz updates, each writing what it merged from its own
\* read, lose no key that was there before them.
C39_QuizKeepsOtherKeys ==
    [][\A q \in QuizIds :
          QuizWritten(q) =>
              LET s == quiz[q].sid
                  n == quiz[q].questions IN
              /\ metadata'[s]["quizQuestions"] = n
              /\ metadata'[s]["quizEnabled"] = 1 <=> n > 0
              /\ \A k \in DOMAIN metadata[s] \ QuizKeys :
                    /\ k \in DOMAIN metadata'[s]
                    /\ metadata'[s][k] = metadata[s][k]]_vars

\* two quiz updates of a stream created with other keys overlapped: the
\* one that read first wrote last, and the other keys are still there
C39_Witness ==
    \E s \in StreamIds :
        /\ quiz[1].pc = "done" /\ quiz[1].status = 200 /\ quiz[1].sid = s
        /\ quiz[2].pc = "done" /\ quiz[2].status = 200 /\ quiz[2].sid = s
        /\ quiz[1].questions # quiz[2].questions
        /\ quiz[1].read["quizUpdatedAt"] < quiz[2].read["quizUpdatedAt"]
        /\ metadata[s]["quizUpdatedAt"] = quiz[1].read["quizUpdatedAt"]
        /\ metadata[s]["quizQuestions"] = quiz[1].questions
        /\ {"isAd", "tags"} \subseteq DOMAIN metadata[s]

\* C40: for every integer page and limit of the query string of
\* GET /api/streams, the limit passed to getUserStreams is between 1 and
\* 100 and the offset (page - 1) * limit is not negative.
C40_LimitAndOffsetInRange ==
    page.pc # "idle" =>
        /\ page.limit >= 1 /\ page.limit <= LimitCap
        /\ page.offset >= 0
====
